---- MODULE Spec2Model ----
(***************************************************************************)
(* SlopGate: the scoring aggregator (src/src/scoring.ts), the twelve       *)
(* checks that feed it and the action entry point that runs them.          *)
(*                                                                         *)
(* JavaScript numbers are IEEE-754 doubles.  The aggregator divides by 100 *)
(* and by the total weight before it rounds, so the model carries doubles  *)
(* as a 53-bit mantissa (a little-endian sequence of 15-bit limbs) and a   *)
(* binary exponent, rounded to nearest-even after every operation.         *)
(***************************************************************************)
EXTENDS Integers, Sequences, FiniteSets, TLC

\* ------------------------------------------------------------------------
\* Unbounded naturals as little-endian limb sequences (<<>> is zero)
\* ------------------------------------------------------------------------
LimbBits == 15
LimbBase == 2 ^ LimbBits
MantissaBits == 53

RECURSIVE BNNorm(_)
BNNorm(a) ==
  IF a = <<>> THEN <<>>
  ELSE IF a[Len(a)] = 0 THEN BNNorm(SubSeq(a, 1, Len(a) - 1))
  ELSE a

RECURSIVE BNFromInt(_)
BNFromInt(n) ==
  IF n = 0 THEN <<>> ELSE <<n % LimbBase>> \o BNFromInt(n \div LimbBase)

RECURSIVE BNToInt(_)
BNToInt(a) ==
  IF a = <<>> THEN 0 ELSE a[1] + LimbBase * BNToInt(Tail(a))

RECURSIVE BNMulCarry(_, _, _)
BNMulCarry(a, k, carry) ==
  IF a = <<>> THEN BNFromInt(carry)
  ELSE LET t == a[1] * k + carry
       IN  <<t % LimbBase>> \o BNMulCarry(Tail(a), k, t \div LimbBase)

BNMulSmall(a, k) == BNNorm(BNMulCarry(a, k, 0))

RECURSIVE BNAddCarry(_, _, _)
BNAddCarry(a, b, carry) ==
  IF a = <<>> /\ b = <<>> THEN BNFromInt(carry)
  ELSE LET x == IF a = <<>> THEN 0 ELSE a[1]
           y == IF b = <<>> THEN 0 ELSE b[1]
           t == x + y + carry
       IN  <<t % LimbBase>> \o
           BNAddCarry(IF a = <<>> THEN <<>> ELSE Tail(a),
                      IF b = <<>> THEN <<>> ELSE Tail(b),
                      t \div LimbBase)

BNAdd(a, b) == BNNorm(BNAddCarry(a, b, 0))

\* long division by a divisor below LimbBase, from the top limb down
RECURSIVE BNDivStep(_, _, _, _)
BNDivStep(a, d, i, rem) ==
  IF i = 0 THEN [q |-> <<>>, r |-> rem]
  ELSE LET t    == rem * LimbBase + a[i]
           rest == BNDivStep(a, d, i - 1, t % d)
       IN  [q |-> rest.q \o <<t \div d>>, r |-> rest.r]

BNDivSmall(a, d) ==
  LET res == BNDivStep(a, d, Len(a), 0)
  IN  [q |-> BNNorm(res.q), r |-> res.r]

RECURSIVE IntBitLen(_)
IntBitLen(n) == IF n = 0 THEN 0 ELSE 1 + IntBitLen(n \div 2)

BNBitLen(a) ==
  IF a = <<>> THEN 0 ELSE LimbBits * (Len(a) - 1) + IntBitLen(a[Len(a)])

BNIsOdd(a) == a # <<>> /\ a[1] % 2 = 1

BNShl(a, n) ==
  IF a = <<>> THEN <<>>
  ELSE [i \in 1..(n \div LimbBits) |-> 0] \o BNMulSmall(a, 2 ^ (n % LimbBits))

\* shift right by n bits; sticky tells whether a non-zero bit was dropped
BNShr(a, n) ==
  LET whole == n \div LimbBits
      kept  == IF whole >= Len(a) THEN <<>> ELSE SubSeq(a, whole + 1, Len(a))
      lost  == \E i \in 1..Len(a) : i <= whole /\ a[i] # 0
      dv    == BNDivSmall(kept, 2 ^ (n % LimbBits))
  IN  [q |-> dv.q, sticky |-> lost \/ dv.r # 0]

\* ------------------------------------------------------------------------
\* IEEE-754 doubles (non-negative finite values and NaN)
\* ------------------------------------------------------------------------
DZero == [nan |-> FALSE, m |-> <<>>, e |-> 0]
DNaN  == [nan |-> TRUE,  m |-> <<>>, e |-> 0]

\* the double nearest to q * 2^e (plus a non-zero tail below q when sticky),
\* ties to even; a sticky q carries at least two bits more than a mantissa
RoundToDouble(q, e, sticky) ==
  LET len == BNBitLen(q)
  IN  IF len = 0 THEN DZero
      ELSE IF len <= MantissaBits
      THEN [nan |-> FALSE, m |-> BNShl(q, MantissaBits - len),
            e |-> e - (MantissaBits - len)]
      ELSE LET sh   == len - MantissaBits
               s1   == BNShr(q, sh - 1)
               half == BNDivSmall(s1.q, 2)
               up   == half.r = 1 /\ (sticky \/ s1.sticky \/ BNIsOdd(half.q))
               m1   == IF up THEN BNAdd(half.q, <<1>>) ELSE half.q
           IN  IF BNBitLen(m1) > MantissaBits
               THEN [nan |-> FALSE, m |-> BNDivSmall(m1, 2).q, e |-> e + sh + 1]
               ELSE [nan |-> FALSE, m |-> m1, e |-> e + sh]

DFromInt(n) == RoundToDouble(BNFromInt(n), 0, FALSE)

DAdd(x, y) ==
  IF x.nan \/ y.nan THEN DNaN
  ELSE IF x.m = <<>> THEN y
  ELSE IF y.m = <<>> THEN x
  ELSE LET e == IF x.e < y.e THEN x.e ELSE y.e
       IN  RoundToDouble(BNAdd(BNShl(x.m, x.e - e), BNShl(y.m, y.e - e)),
                         e, FALSE)

\* x / d and x * k for an integer-valued second operand 0 < d, k < LimbBase
DDivInt(x, d) ==
  IF x.nan THEN DNaN
  ELSE LET dv == BNDivSmall(BNShl(x.m, 2 * LimbBits), d)
       IN  RoundToDouble(dv.q, x.e - 2 * LimbBits, dv.r # 0)

DMulInt(x, k) ==
  IF x.nan THEN DNaN ELSE RoundToDouble(BNMulSmall(x.m, k), x.e, FALSE)

\* Math.round of a non-negative double below 2^52: floor(x + 1/2)
MathRound(x) ==
  IF x.m = <<>> THEN 0
  ELSE IF x.e >= 0 THEN BNToInt(BNShl(x.m, x.e))
  ELSE (BNToInt(BNShr(x.m, (-x.e) - 1).q) + 1) \div 2


RECURSIVE BNCmpFrom(_, _, _)
BNCmpFrom(a, b, i) ==
  IF i = 0 THEN 0
  ELSE IF a[i] < b[i] THEN 0 - 1
  ELSE IF a[i] > b[i] THEN 1
  ELSE BNCmpFrom(a, b, i - 1)

BNCmp(a, b) ==
  IF Len(a) < Len(b) THEN 0 - 1
  ELSE IF Len(a) > Len(b) THEN 1
  ELSE BNCmpFrom(a, b, Len(a))

\* sign of x - y for two doubles that are not NaN
DCmp(x, y) ==
  IF x.m = <<>> /\ y.m = <<>> THEN 0
  ELSE IF x.m = <<>> THEN 0 - 1
  ELSE IF y.m = <<>> THEN 1
  ELSE IF x.e < y.e THEN 0 - 1
  ELSE IF x.e > y.e THEN 1
  ELSE BNCmp(x.m, y.m)

\* a - b for a >= b
RECURSIVE BNSubBorrow(_, _, _)
BNSubBorrow(a, b, borrow) ==
  IF a = <<>> THEN <<>>
  ELSE LET y == IF b = <<>> THEN 0 ELSE b[1]
           t == a[1] - y - borrow
       IN  <<IF t < 0 THEN t + LimbBase ELSE t>> \o
           BNSubBorrow(Tail(a), IF b = <<>> THEN <<>> ELSE Tail(b),
                       IF t < 0 THEN 1 ELSE 0)

BNSub(a, b) == BNNorm(BNSubBorrow(a, b, 0))

\* x - y for doubles x >= y >= 0
DSub(x, y) ==
  IF x.nan \/ y.nan THEN DNaN
  ELSE IF y.m = <<>> THEN x
  ELSE LET e == IF x.e < y.e THEN x.e ELSE y.e
       IN  RoundToDouble(BNSub(BNShl(x.m, x.e - e), BNShl(y.m, y.e - e)),
                         e, FALSE)

\* the double a decimal literal n/d denotes, and x < y, x <= y with a NaN
\* operand comparing false
DLit(n, d) == DDivInt(DFromInt(n), d)
DLt(x, y)  == ~x.nan /\ ~y.nan /\ DCmp(x, y) < 0
DLe(x, y)  == ~x.nan /\ ~y.nan /\ DCmp(x, y) <= 0

\* x.toFixed(0) of a non-negative double
toFixed0(x) == IF x.nan THEN "NaN" ELSE ToString(MathRound(x))

\* ------------------------------------------------------------------------
\* Strings: the String.prototype methods the checks call
\* ------------------------------------------------------------------------
CharAt(s, i) == SubSeq(s, i, i)

\* the characters \s matches among those the inputs use
WhiteSpace == {" ", "\t", "\n", "\r"}

UpperCase == "ABCDEFGHIJKLMNOPQRSTUVWXYZ"
LowerCase == "abcdefghijklmnopqrstuvwxyz"
Digits    == "0123456789"

\* the positions 1..n in order
Indices(n) == [k \in 1..n |-> k]

\* the sequences of seqs one after the other
RECURSIVE Flatten(_)
Flatten(seqs) ==
  IF seqs = <<>> THEN <<>>
  ELSE IF Len(seqs) = 1 THEN seqs[1]
  ELSE LET half == Len(seqs) \div 2
       IN  Flatten(SubSeq(seqs, 1, half))
             \o Flatten(SubSeq(seqs, half + 1, Len(seqs)))

\* the sum of a sequence of numbers
RECURSIVE Sum(_)
Sum(numbers) ==
  IF numbers = <<>> THEN 0
  ELSE IF Len(numbers) = 1 THEN numbers[1]
  ELSE LET half == Len(numbers) \div 2
       IN  Sum(SubSeq(numbers, 1, half))
             + Sum(SubSeq(numbers, half + 1, Len(numbers)))

\* position of the first one-character string c in s at i or later, 0 when
\* absent
IndexOfChar(s, c, i) ==
  IF \E k \in i..Len(s) : CharAt(s, k) = c
  THEN CHOOSE k \in i..Len(s) :
         CharAt(s, k) = c /\ \A j \in i..(k - 1) : CharAt(s, j) # c
  ELSE 0

LowerChar(c) ==
  LET k == IndexOfChar(UpperCase, c, 1)
  IN  IF k = 0 THEN c ELSE CharAt(LowerCase, k)

RECURSIVE toLowerCase(_)
toLowerCase(s) ==
  IF Len(s) <= 1 THEN LowerChar(s)
  ELSE LET half == Len(s) \div 2
       IN  toLowerCase(SubSeq(s, 1, half))
             \o toLowerCase(SubSeq(s, half + 1, Len(s)))

IsBlank(s) == \A k \in 1..Len(s) : CharAt(s, k) \in WhiteSpace

trimStart(s) ==
  IF IsBlank(s) THEN ""
  ELSE LET first == CHOOSE k \in 1..Len(s) :
                      /\ CharAt(s, k) \notin WhiteSpace
                      /\ IsBlank(SubSeq(s, 1, k - 1))
       IN  SubSeq(s, first, Len(s))

trimEnd(s) ==
  IF IsBlank(s) THEN ""
  ELSE LET last == CHOOSE k \in 1..Len(s) :
                     /\ CharAt(s, k) \notin WhiteSpace
                     /\ IsBlank(SubSeq(s, k + 1, Len(s)))
       IN  SubSeq(s, 1, last)

trim(s) == trimEnd(trimStart(s))

startsWith(s, prefix) ==
  Len(prefix) <= Len(s) /\ SubSeq(s, 1, Len(prefix)) = prefix

includes(s, part) ==
  \E i \in 1..(Len(s) + 1) :
    i + Len(part) - 1 <= Len(s) /\ SubSeq(s, i, i + Len(part) - 1) = part

\* s.substring(start), start counted from 0
substring(s, start) ==
  IF start >= Len(s) THEN "" ELSE SubSeq(s, start + 1, Len(s))

\* s.split(sep) for a one-character separator: the pieces between the
\* occurrences of sep
split(s, sep) ==
  LET at == SelectSeq(Indices(Len(s)), LAMBDA k : CharAt(s, k) = sep)
  IN  [k \in 1..(Len(at) + 1) |->
         SubSeq(s, IF k = 1 THEN 1 ELSE at[k - 1] + 1,
                   IF k > Len(at) THEN Len(s) ELSE at[k] - 1)]

RECURSIVE join(_, _)
join(parts, sep) ==
  IF parts = <<>> THEN ""
  ELSE IF Len(parts) = 1 THEN parts[1]
  ELSE LET half == Len(parts) \div 2
       IN  join(SubSeq(parts, 1, half), sep) \o sep
             \o join(SubSeq(parts, half + 1, Len(parts)), sep)

\* array.slice(0, n)
slice(a, n) == SubSeq(a, 1, IF Len(a) < n THEN Len(a) ELSE n)

\* [...new Set(a)]: the first occurrence of every element, in order
unique(a) ==
  LET firsts == SelectSeq(Indices(Len(a)),
                          LAMBDA k : \A j \in 1..(k - 1) : a[j] # a[k])
  IN  [k \in 1..Len(firsts) |-> a[firsts[k]]]

\* ------------------------------------------------------------------------
\* Regular expressions: a backtracking matcher that tries alternatives in
\* the order RegExp does, so that the first result is the match RegExp finds
\* ------------------------------------------------------------------------
\* a node: t names the construct, s is its literal text or the members of its
\* character class, kids are its operands
ReNode(t, s, kids) == [t |-> t, s |-> s, kids |-> kids]

Lit(s)       == ReNode("lit", s, <<>>)
OneOf(s)     == ReNode("set", s, <<>>)
NoneOf(s)    == ReNode("nset", s, <<>>)
AnyChar      == ReNode("any", "", <<>>)
AnyOrNewline == ReNode("all", "", <<>>)
Cat(kids)    == ReNode("seq", "", kids)
Alt(kids)    == ReNode("alt", "", kids)
Star(r)      == ReNode("star", "", <<r>>)
LazyStar(r)  == ReNode("lazy", "", <<r>>)
Opt(r)       == Alt(<<r, Cat(<<>>)>>)
Plus(r)      == Cat(<<r, Star(r)>>)
Group(r)     == ReNode("group", "", <<r>>)
Bol          == ReNode("bol", "", <<>>)
Eol          == ReNode("eol", "", <<>>)
WordBoundary == ReNode("wb", "", <<>>)
Space        == OneOf(" \t\n\r")
Digit        == OneOf(Digits)
WordChars    == LowerCase \o UpperCase \o Digits \o "_"
Spaces       == Plus(Space)
Spaces0      == Star(Space)
AnyOf(words) == Alt([k \in 1..Len(words) |-> Lit(words[k])])
Anchored(kids) == Cat(<<Bol>> \o kids \o <<Eol>>)

\* flags: i ignores case, m lets ^ and $ match at line breaks
NoFlags == [i |-> FALSE, m |-> FALSE]
FlagM   == [i |-> FALSE, m |-> TRUE]
FlagI   == [i |-> TRUE,  m |-> FALSE]

InClass(c, class, fl) ==
  IF fl.i
  THEN \E k \in 1..Len(class) : LowerChar(CharAt(class, k)) = LowerChar(c)
  ELSE \E k \in 1..Len(class) : CharAt(class, k) = c

IsWordAt(str, k) ==
  k >= 1 /\ k <= Len(str) /\ InClass(CharAt(str, k), WordChars, NoFlags)

\* constructs that match exactly one character
ReIsChar(re) == re.t \in {"set", "nset", "any", "all"}

\* whether the one-character construct re matches the character at k
ReChar(re, str, k, fl) ==
  /\ k >= 1
  /\ k <= Len(str)
  /\ CASE re.t = "set"  -> InClass(CharAt(str, k), re.s, fl)
       [] re.t = "nset" -> ~InClass(CharAt(str, k), re.s, fl)
       [] re.t = "any"  -> CharAt(str, k) \notin {"\n", "\r"}
       [] re.t = "all"  -> TRUE

\* the position after the longest run of characters from i on that the
\* one-character construct re matches
ReRunEnd(re, str, i, fl) ==
  CHOOSE k \in i..(Len(str) + 1) :
    /\ ~ReChar(re, str, k, fl)
    /\ \A j \in i..(k - 1) : ReChar(re, str, j, fl)

\* a matcher state: the next position and the text of the capture group
RECURSIVE ReEnds(_, _, _, _)
RECURSIVE ReEndsFrom(_, _, _, _)
RECURSIVE ReEndsSeq(_, _, _, _, _)
RECURSIVE ReEndsAlt(_, _, _, _, _)

\* the states in which a match of re begun in state st can end, in the order
\* backtracking reaches them
ReEnds(re, str, st, fl) ==
  LET i    == st.pos
      one  == <<[pos |-> i + 1, cap |-> st.cap]>>
      here == <<st>>
  IN  CASE re.t = "lit" ->
             LET n == Len(re.s)
             IN  IF i + n - 1 > Len(str) THEN <<>>
                 ELSE LET sub == SubSeq(str, i, i + n - 1)
                      IN  IF (IF fl.i THEN toLowerCase(sub) = toLowerCase(re.s)
                              ELSE sub = re.s)
                          THEN <<[pos |-> i + n, cap |-> st.cap]>>
                          ELSE <<>>
        [] ReIsChar(re) -> IF ReChar(re, str, i, fl) THEN one ELSE <<>>
        [] re.t = "seq" -> ReEndsSeq(re.kids, 1, str, here, fl)
        [] re.t = "alt" -> ReEndsAlt(re.kids, 1, str, st, fl)
        [] re.t = "star" ->
             \* greedy: the longest repetition first
             IF ReIsChar(re.kids[1])
             THEN LET stop == ReRunEnd(re.kids[1], str, i, fl)
                  IN  [k \in 1..(stop - i + 1) |->
                         [pos |-> stop - k + 1, cap |-> st.cap]]
             ELSE LET step == SelectSeq(ReEnds(re.kids[1], str, st, fl),
                                        LAMBDA e : e.pos > i)
                  IN  ReEndsFrom(re, str, step, fl) \o here
        [] re.t = "lazy" ->
             \* lazy: the shortest repetition first
             IF ReIsChar(re.kids[1])
             THEN LET stop == ReRunEnd(re.kids[1], str, i, fl)
                  IN  [k \in 1..(stop - i + 1) |->
                         [pos |-> i + k - 1, cap |-> st.cap]]
             ELSE LET step == SelectSeq(ReEnds(re.kids[1], str, st, fl),
                                        LAMBDA e : e.pos > i)
                  IN  here \o ReEndsFrom(re, str, step, fl)
        [] re.t = "group" ->
             LET ends == ReEnds(re.kids[1], str, st, fl)
             IN  [k \in 1..Len(ends) |->
                    [pos |-> ends[k].pos,
                     cap |-> IF ends[k].pos > i
                             THEN SubSeq(str, i, ends[k].pos - 1) ELSE ""]]
        [] re.t = "bol" ->
             IF i = 1 \/ (fl.m /\ CharAt(str, i - 1) = "\n") THEN here ELSE <<>>
        [] re.t = "eol" ->
             IF i = Len(str) + 1 \/ (fl.m /\ CharAt(str, i) = "\n")
             THEN here ELSE <<>>
        [] re.t = "wb" ->
             IF IsWordAt(str, i - 1) # IsWordAt(str, i) THEN here ELSE <<>>

ReEndsFrom(re, str, starts, fl) ==
  IF starts = <<>> THEN <<>>
  ELSE IF Len(starts) = 1 THEN ReEnds(re, str, starts[1], fl)
  ELSE LET half == Len(starts) \div 2
       IN  ReEndsFrom(re, str, SubSeq(starts, 1, half), fl)
             \o ReEndsFrom(re, str, SubSeq(starts, half + 1, Len(starts)), fl)

ReEndsSeq(kids, k, str, starts, fl) ==
  IF k > Len(kids) \/ starts = <<>> THEN starts
  ELSE ReEndsSeq(kids, k + 1, str, ReEndsFrom(kids[k], str, starts, fl), fl)

ReEndsAlt(kids, k, str, st, fl) ==
  IF k > Len(kids) THEN <<>>
  ELSE ReEnds(kids[k], str, st, fl) \o ReEndsAlt(kids, k + 1, str, st, fl)

NoMatch == [found |-> FALSE, start |-> 0, end |-> 0, cap |-> ""]

\* the match RegExp finds at each position from from on that has one, in
\* order of position
ReHits(re, str, from, fl) ==
  SelectSeq([k \in 1..(Len(str) + 2 - from) |->
               LET ends == ReEnds(re, str, [pos |-> from + k - 1, cap |-> ""], fl)
               IN  IF ends = <<>> THEN NoMatch
                   ELSE [found |-> TRUE, start |-> from + k - 1,
                         end |-> ends[1].pos, cap |-> ends[1].cap]],
            LAMBDA m : m.found)

\* regex.exec(str) from position from: the leftmost match, or none
ReExec(re, str, from, fl) ==
  LET hits == ReHits(re, str, from, fl)
  IN  IF hits = <<>> THEN NoMatch ELSE hits[1]

\* regex.test(str)
ReTest(re, str, fl) == ReExec(re, str, 1, fl).found

\* the hits that repeated exec calls return: jump[k] is the hit found after
\* hit k (Len(jump) after the last one), reached holds the hits found within
\* the calls made so far, and every round doubles the number of calls
RECURSIVE ReOrbit(_, _, _)
ReOrbit(jump, reached, rounds) ==
  IF rounds = 0 \/ jump = <<>> THEN reached
  ELSE ReOrbit([k \in 1..Len(jump) |-> jump[jump[k]]] \o <<>>,
               reached \cup {jump[k] : k \in reached}, rounds \div 2)

\* the successive matches of a regex with the g flag: each one is the
\* leftmost match that starts at lastIndex or later
ReMatches(re, str, from, fl) ==
  LET hits == ReHits(re, str, from, fl)
      n    == Len(hits)
      \* the first hit that starts at p or later, n + 1 when there is none
      hitFrom(p) ==
        IF \E k \in 1..n : hits[k].start >= p
        THEN CHOOSE k \in 1..n :
               hits[k].start >= p /\ \A j \in 1..(k - 1) : hits[j].start < p
        ELSE n + 1
      lastIndex(k) ==
        IF hits[k].end = hits[k].start THEN hits[k].end + 1 ELSE hits[k].end
      next == [k \in 1..(n + 1) |->
                 IF k > n THEN n + 1 ELSE hitFrom(lastIndex(k))] \o <<>>
      found  == ReOrbit(next, {hitFrom(from)}, n + 1)
      chosen == SelectSeq(Indices(n), LAMBDA k : k \in found)
  IN  [k \in 1..Len(chosen) |-> hits[chosen[k]]]

\* str.replace(regex, with) for a regex with the g flag: the text between
\* the matches, joined by with
ReReplaceAll(re, str, with, fl) ==
  LET ms == ReMatches(re, str, 1, fl)
  IN  join([k \in 1..(Len(ms) + 1) |->
              SubSeq(str, IF k = 1 THEN 1 ELSE ms[k - 1].end,
                          IF k > Len(ms) THEN Len(str) ELSE ms[k].start - 1)],
           with)

\* ------------------------------------------------------------------------
\* Configuration (src/src/config.ts)
\* ------------------------------------------------------------------------
CheckIds ==
  {"velocity", "abandonment", "shotgun", "new_account", "placeholder",
   "hallucinated_import", "docstring_inflation", "copy_paste",
   "generic_description", "oversized_diff", "unrelated_changes",
   "formatting_only"}

DefaultThresholds == [warn |-> 30, flag |-> 60, block |-> 80]

DefaultWeights ==
  [velocity |-> 80, abandonment |-> 60, shotgun |-> 90, new_account |-> 20,
   placeholder |-> 70, hallucinated_import |-> 90, docstring_inflation |-> 40,
   copy_paste |-> 60, generic_description |-> 50, oversized_diff |-> 60,
   unrelated_changes |-> 40, formatting_only |-> 30]

DefaultAllowlist ==
  [users |-> {},
   bots |-> {"dependabot[bot]", "renovate[bot]", "github-actions[bot]"}]

DEFAULT_CONFIG ==
  [thresholds |-> DefaultThresholds, auto_close |-> FALSE,
   weights |-> DefaultWeights, allowlist |-> DefaultAllowlist]

\* yaml.load of the .slopgate.yml texts considered: a mapping, null for a
\* document without content, a scalar, or an error for text that is no YAML
YamlMapping(value) == [kind |-> "mapping", value |-> value]

YamlDocuments ==
  [text \in {"# defaults"} |-> [kind |-> "null"]]
  @@ [text \in {"thresholds: ["} |-> [kind |-> "error"]]
  @@ [text \in {"strict"} |-> [kind |-> "scalar"]]
  @@ [text \in {"auto_close: true"} |-> YamlMapping([auto_close |-> TRUE])]
  @@ [text \in {"thresholds:\n  warn: 20\n  flag: 40\n  block: 60"} |->
        YamlMapping([thresholds |-> [warn |-> 20, flag |-> 40, block |-> 60]])]
  @@ [text \in {"thresholds:\n  warn: 60\n  flag: 30"} |->
        YamlMapping([thresholds |-> [warn |-> 60, flag |-> 30]])]
  @@ [text \in {"thresholds:\n  warn: 50\n  flag: 50\n  block: 50"} |->
        YamlMapping([thresholds |-> [warn |-> 50, flag |-> 50, block |-> 50]])]
  @@ [text \in {"thresholds:\n  warn: 0\n  flag: 10\n  block: 100"} |->
        YamlMapping([thresholds |-> [warn |-> 0, flag |-> 10, block |-> 100]])]
  @@ [text \in {"thresholds:\n  block: 101"} |->
        YamlMapping([thresholds |-> [block |-> 101]])]
  @@ [text \in {"weights:\n  velocity: 0\nlabels: false"} |->
        YamlMapping([weights |-> [velocity |-> 0], labels |-> FALSE])]
  @@ [text \in {"allowlist:\n  users:\n    - alice\n    - renovate[bot]"} |->
        YamlMapping([allowlist |-> [users |-> {"alice", "renovate[bot]"}]])]
  @@ [text \in {"auto_close: true\nthresholds:\n  warn: 20\n  flag: 40\n  block: 50\nallowlist:\n  bots: []"} |->
        YamlMapping([auto_close |-> TRUE,
                     thresholds |-> [warn |-> 20, flag |-> 40, block |-> 50],
                     allowlist |-> [bots |-> {}]])]

ConfigTexts == DOMAIN YamlDocuments

yamlLoad(text) == YamlDocuments[text]

\* a key of a parsed object, or the schema's default where it is missing
Field(object, key, default) ==
  IF key \in DOMAIN object THEN object[key] ELSE default

\* z.number().min(0).max(100) for each key of a thresholds or weights object
InRange(object, keys) ==
  \A key \in DOMAIN object \cap keys : object[key] >= 0 /\ object[key] <= 100

\* ConfigSchema.parse: the validated configuration with the defaults filled
\* in and unknown keys dropped, or failure
ConfigSchema(raw) ==
  LET thresholds == Field(raw, "thresholds", << >>)
      weights == Field(raw, "weights", << >>)
      allowlist == Field(raw, "allowlist", << >>)
  IN  IF InRange(thresholds, DOMAIN DefaultThresholds)
         /\ InRange(weights, CheckIds)
      THEN [ok |-> TRUE,
            config |->
              [thresholds |->
                 [key \in DOMAIN DefaultThresholds |->
                    Field(thresholds, key, DefaultThresholds[key])],
               auto_close |-> Field(raw, "auto_close", FALSE),
               weights |->
                 [key \in CheckIds |-> Field(weights, key, DefaultWeights[key])],
               allowlist |->
                 [users |-> Field(allowlist, "users", DefaultAllowlist.users),
                  bots |-> Field(allowlist, "bots", DefaultAllowlist.bots)]]]
      ELSE [ok |-> FALSE]

parseConfig(yamlContent) ==
  LET raw == yamlLoad(yamlContent)
  IN  CASE raw.kind = "null" -> [ok |-> TRUE, config |-> DEFAULT_CONFIG]
        [] raw.kind = "mapping" -> ConfigSchema(raw.value)
        [] OTHER -> [ok |-> FALSE]

\* an absent or blank .slopgate.yml, or one that does not parse, gives the
\* defaults
loadConfig(yamlContent) ==
  IF trim(yamlContent) = ""
  THEN DEFAULT_CONFIG
  ELSE LET parsed == parseConfig(yamlContent)
       IN  IF parsed.ok THEN parsed.config ELSE DEFAULT_CONFIG

\* a login of allowlist.bots is let through whatever the account's type
isAllowlisted_IgnoreType(cfg, username, isBot) ==
  \/ username \in cfg.allowlist.bots
  \/ username \in cfg.allowlist.users

isAllowlisted(cfg, username, isBot) ==
  \/ isBot /\ username \in cfg.allowlist.bots
  \/ username \in cfg.allowlist.users

\* ------------------------------------------------------------------------
\* Scoring (src/src/scoring.ts)
\* ------------------------------------------------------------------------
CHECK_WEIGHT_MAP == [id \in CheckIds |-> id]

\* members every object literal inherits from Object.prototype
ObjectPrototypeKeys ==
  {"constructor", "toString", "toLocaleString", "valueOf", "hasOwnProperty",
   "isPrototypeOf", "propertyIsEnumerable", "__proto__"}

\* CHECK_WEIGHT_MAP[check.name]: an own entry, an inherited member (a truthy
\* function or object) or undefined
LookupWeightKey(name) ==
  IF name \in DOMAIN CHECK_WEIGHT_MAP
  THEN [kind |-> "string", key |-> CHECK_WEIGHT_MAP[name]]
  ELSE IF name \in ObjectPrototypeKeys
  THEN [kind |-> "object", key |-> name]
  ELSE [kind |-> "undefined", key |-> name]

\* a weight is a number or undefined
NumberWeight(n) == [isNumber |-> TRUE, value |-> n]
UndefinedWeight == [isNumber |-> FALSE, value |-> 0]

\* weightKey ? config.weights[weightKey] : 50; an inherited member is
\* truthy and is no key of config.weights
ResolveWeight(name, cfg) ==
  LET weightKey == LookupWeightKey(name)
  IN  IF weightKey.kind # "undefined"
      THEN IF weightKey.kind = "string"
           THEN NumberWeight(cfg.weights[weightKey.key])
           ELSE UndefinedWeight
      ELSE NumberWeight(50)

\* (check.score * weight) / 100
WeightedScoreOf(score, weight) ==
  IF weight.isNumber THEN DDivInt(DFromInt(score * weight.value), 100)
  ELSE DNaN

\* doubles added one after the other onto total; NaN stays NaN
RECURSIVE AddUp(_, _, _)
AddUp(xs, i, total) ==
  IF i > Len(xs) \/ total.nan THEN total
  ELSE AddUp(xs, i + 1, DAdd(total, xs[i]))

\* the loop without the weight === 0 skip
WeighChecks_NoSkip(cs, cfg) ==
  LET weights == [i \in 1..Len(cs) |-> ResolveWeight(cs[i].name, cfg)] \o <<>>
      counted == Indices(Len(cs))
      weightedChecks ==
        [k \in 1..Len(counted) |->
           LET check  == cs[counted[k]]
               weight == weights[counted[k]]
           IN  [name |-> check.name, score |-> check.score,
                reason |-> check.reason, weight |-> weight,
                weightedScore |-> WeightedScoreOf(check.score, weight)]] \o <<>>
  IN  [weightedChecks |-> weightedChecks,
       totalWeight |->
         IF \E k \in 1..Len(counted) : ~weights[counted[k]].isNumber
         THEN [nan |-> TRUE, n |-> 0]
         ELSE [nan |-> FALSE,
               n |-> Sum([k \in 1..Len(counted) |-> weights[counted[k]].value])],
       totalWeightedScore |->
         AddUp([k \in 1..Len(counted) |-> weightedChecks[k].weightedScore],
               1, DZero)]

\* the loop over checks: a check of weight 0 is skipped, every other one is
\* pushed to weightedChecks and added to totalWeight (an integer or NaN) and
\* totalWeightedScore
WeighChecks(cs, cfg) ==
  LET weights == [i \in 1..Len(cs) |-> ResolveWeight(cs[i].name, cfg)] \o <<>>
      counted == SelectSeq(Indices(Len(cs)),
                  LAMBDA i : ~(weights[i].isNumber /\ weights[i].value = 0))
      weightedChecks ==
        [k \in 1..Len(counted) |->
           LET check  == cs[counted[k]]
               weight == weights[counted[k]]
           IN  [name |-> check.name, score |-> check.score,
                reason |-> check.reason, weight |-> weight,
                weightedScore |-> WeightedScoreOf(check.score, weight)]] \o <<>>
  IN  [weightedChecks |-> weightedChecks,
       totalWeight |->
         IF \E k \in 1..Len(counted) : ~weights[counted[k]].isNumber
         THEN [nan |-> TRUE, n |-> 0]
         ELSE [nan |-> FALSE,
               n |-> Sum([k \in 1..Len(counted) |-> weights[counted[k]].value])],
       totalWeightedScore |->
         AddUp([k \in 1..Len(counted) |-> weightedChecks[k].weightedScore],
               1, DZero)]

\* the raw weighted sum, not divided by the total weight
FinalScoreOf_RawSum(totalWeight, totalWeightedScore) ==
  IF ~totalWeight.nan /\ totalWeight.n > 0
  THEN MathRound(totalWeightedScore)
  ELSE 0

\* totalWeight > 0 ? Math.round((totalWeightedScore / totalWeight) * 100) : 0
FinalScoreOf(totalWeight, totalWeightedScore) ==
  IF ~totalWeight.nan /\ totalWeight.n > 0
  THEN MathRound(DMulInt(DDivInt(totalWeightedScore, totalWeight.n), 100))
  ELSE 0

\* thresholds compared with > in place of >=
getVerdict_Exclusive(score, cfg) ==
  IF score > cfg.thresholds.block THEN "block"
  ELSE IF score > cfg.thresholds.flag THEN "flag"
  ELSE IF score > cfg.thresholds.warn THEN "warn"
  ELSE "pass"

getVerdict(score, cfg) ==
  IF score >= cfg.thresholds.block THEN "block"
  ELSE IF score >= cfg.thresholds.flag THEN "flag"
  ELSE IF score >= cfg.thresholds.warn THEN "warn"
  ELSE "pass"

\* (a, b) => b.weightedScore - a.weightedScore, a NaN result counting as +0
CompareFn(a, b) ==
  IF a.weightedScore.nan \/ b.weightedScore.nan THEN 0
  ELSE DCmp(b.weightedScore, a.weightedScore)

\* a stable sort by CompareFn: an entry follows the entries that compare
\* before it and the earlier entries that compare equal to it
StableSort(s) ==
  LET before(j, i) ==
        \/ CompareFn(s[j], s[i]) < 0
        \/ CompareFn(s[j], s[i]) = 0 /\ j < i
      rank(i) == Cardinality({j \in 1..Len(s) : before(j, i)}) + 1
  IN  [p \in 1..Len(s) |-> s[CHOOSE i \in 1..Len(s) : rank(i) = p]]

\* the comparator is consistent unless a NaN entry compares equal to two
\* entries that differ from each other
ConsistentComparator(s) ==
  \/ \A i \in 1..Len(s) : ~s[i].weightedScore.nan
  \/ \A i, j \in 1..Len(s) : CompareFn(s[i], s[j]) = 0

\* Array.prototype.sort: stable for a consistent comparator, otherwise some
\* implementation-defined permutation of the entries
SortOutcomes(s) ==
  IF ConsistentComparator(s) THEN {StableSort(s)}
  ELSE {[i \in 1..Len(s) |-> s[p[i]]] : p \in Permutations(1..Len(s))}

nameMap ==
  [velocity |-> "PR Velocity", abandonment |-> "Abandonment Rate",
   shotgun |-> "Shotgun Pattern", new_account |-> "New Account",
   placeholder |-> "Placeholder Code",
   hallucinated_import |-> "Hallucinated Imports",
   docstring_inflation |-> "Docstring Inflation",
   copy_paste |-> "Internal Duplication",
   generic_description |-> "Generic Description",
   oversized_diff |-> "Oversized Diff",
   unrelated_changes |-> "Unrelated Changes",
   formatting_only |-> "Formatting Only"]

\* nameMap[name] || name, as it prints inside a template literal; an
\* inherited member prints as its function or object text
formatCheckName(name) ==
  IF name \in DOMAIN nameMap THEN nameMap[name]
  ELSE IF name = "__proto__" THEN "[object Object]"
  ELSE IF name = "constructor" THEN "function Object() { [native code] }"
  ELSE IF name \in ObjectPrototypeKeys
  THEN "function " \o name \o "() { [native code] }"
  ELSE name

CleanSummary == "All checks passed. No signs of AI-generated slop detected."

verdictText ==
  [pass  |-> "This PR looks clean.",
   warn  |-> "This PR has some signals that may warrant closer review.",
   flag  |-> "This PR shows multiple signals consistent with AI-generated content.",
   block |-> "This PR has strong indicators of being AI-generated slop."]

toUpperCase ==
  [pass |-> "PASS", warn |-> "WARN", flag |-> "FLAG", block |-> "BLOCK"]

WeightText(weight) ==
  IF weight.isNumber THEN ToString(weight.value) ELSE "undefined"

\* the filter keeping checks of score 0
TopIssues_IncludeZero(weightedChecks) ==
  LET positive == SelectSeq(weightedChecks, LAMBDA c : c.score >= 0)
  IN  SubSeq(positive, 1, IF Len(positive) < 5 THEN Len(positive) ELSE 5)

\* the filter without the slice
TopIssues_NoLimit(weightedChecks) ==
  SelectSeq(weightedChecks, LAMBDA c : c.score > 0)

\* weightedChecks.filter((c) => c.score > 0).slice(0, 5)
TopIssues(weightedChecks) ==
  LET positive == SelectSeq(weightedChecks, LAMBDA c : c.score > 0)
  IN  SubSeq(positive, 1, IF Len(positive) < 5 THEN Len(positive) ELSE 5)

IssueLine(c) ==
  "- **" \o formatCheckName(c.name) \o "** (score: " \o ToString(c.score)
    \o ", weight: " \o WeightText(c.weight) \o "): " \o c.reason

\* topIssues.map(...).join('\n')
JoinLines(lines) == join(lines, "\n")

generateSummary(finalScore, verdict, weightedChecks) ==
  LET topIssues == TopIssues(weightedChecks)
      issueList == JoinLines([i \in 1..Len(topIssues) |-> IssueLine(topIssues[i])])
  IN  IF Len(topIssues) = 0 THEN CleanSummary
      ELSE "**Score: " \o ToString(finalScore) \o "/100** ("
             \o toUpperCase[verdict] \o ")\n\n" \o verdictText[verdict]
             \o "\n\n### Findings\n\n" \o issueList

\* every result calculateScore can return for a check list; there is more
\* than one only where the sort is implementation-defined
calculateScore(cs, cfg) ==
  LET acc == WeighChecks(cs, cfg)
      finalScore == FinalScoreOf(acc.totalWeight, acc.totalWeightedScore)
      verdict == getVerdict(finalScore, cfg)
  IN  {[finalScore |-> finalScore, verdict |-> verdict, checks |-> cs,
        weightedChecks |-> sorted,
        summary |-> generateSummary(finalScore, verdict, sorted)]
         : sorted \in SortOutcomes(acc.weightedChecks)}

\* ------------------------------------------------------------------------
\* Content checks (src/src/checks/content.ts)
\* ------------------------------------------------------------------------
\* what every check returns
CheckResult_SilentZero(name, score, reason) ==
  [name |-> name, score |-> score,
   reason |-> IF score = 0 THEN "" ELSE reason]

CheckResult(name, score, reason) ==
  [name |-> name, score |-> score, reason |-> reason]

\* a PRFile is [filename, patch]; patch "" stands for a file that came without
\* patch text (undefined) as well as for an empty patch: both are falsy

\* the class of quote characters; it has the backquote as well, a character
\* no string of this module can hold (the reasons below print ' in its place)
Quote == OneOf("\"'")

\* patch.split('\n').filter(line => line.startsWith('+') && !line.startsWith('+++'))
addedLinesOf(patch) ==
  SelectSeq(split(patch, "\n"),
            LAMBDA line : startsWith(line, "+") /\ ~startsWith(line, "+++"))

emptyFunction ==
  Alt(<<Cat(<<Lit("{"), Spaces0, Lit("}")>>),
        Cat(<<Lit("{"), Spaces0, Lit("//"), Spaces0, Lit("}")>>),
        Cat(<<Lit("{"), Spaces0, Lit("/*"), Spaces0, Lit("*/"), Spaces0, Lit("}")>>)>>)

todoWithoutContext == Cat(<<Lit("//"), Spaces0, Lit("TODO"), Spaces0, Eol>>)

passStatement == Cat(<<Bol, Lit("+"), Spaces0, Lit("pass"), Spaces0, Eol>>)

placeholderNames ==
  Cat(<<WordBoundary,
        Alt(<<Lit("foo"), Lit("bar"), Lit("baz"),
              Cat(<<Lit("temp"), Star(Digit)>>),
              Cat(<<Lit("test"), Plus(Digit)>>),
              Lit("xxx"), Lit("yyy"), Lit("zzz"), Lit("placeholder"),
              Lit("dummy"), Lit("sample"),
              Cat(<<Lit("example"), Plus(Digit)>>)>>),
        WordBoundary>>)

notImplemented ==
  Cat(<<Lit("throw"), Spaces, Lit("new"), Spaces,
        AnyOf(<<"Error", "NotImplementedError">>), Spaces0, Lit("("), Spaces0,
        Quote,
        Alt(<<Cat(<<Lit("not"), Spaces, Lit("implemented")>>),
              Lit("todo"), Lit("fixme")>>)>>)

\* the texts a match list holds
matchTexts(str, ms) ==
  [k \in 1..Len(ms) |-> SubSeq(str, ms[k].start, ms[k].end - 1)]

\* the body of the loop over files: what one file adds to issues,
\* totalIssueCount and totalLinesChanged
placeholderScanFile(file) ==
  LET addedLines     == addedLinesOf(file.patch)
      addedContent   == join(addedLines, "\n")
      emptyFunctions == ReMatches(emptyFunction, addedContent, 1, NoFlags)
      todos          == ReMatches(todoWithoutContext, addedContent, 1, FlagM)
      passStmts      == ReMatches(passStatement, addedContent, 1, FlagM)
      placeholders   == ReMatches(placeholderNames, addedContent, 1, FlagI)
      notImpl        == ReMatches(notImplemented, addedContent, 1, FlagI)
      names == matchTexts(addedContent, placeholders)
      uniqueNames == unique([k \in 1..Len(names) |-> toLowerCase(names[k])])
      flagged == Len(placeholders) > 2
      issues ==
        (IF Len(emptyFunctions) > 0
         THEN <<file.filename \o ": " \o ToString(Len(emptyFunctions))
                  \o " empty function body/bodies">> ELSE <<>>)
        \o (IF Len(todos) > 0
            THEN <<file.filename \o ": " \o ToString(Len(todos))
                     \o " TODO comment(s) without context">> ELSE <<>>)
        \o (IF Len(passStmts) > 0
            THEN <<file.filename \o ": " \o ToString(Len(passStmts))
                     \o " bare 'pass' statement(s)">> ELSE <<>>)
        \o (IF flagged
            THEN <<file.filename \o ": placeholder variable names detected ("
                     \o join(slice(uniqueNames, 5), ", ") \o ")">> ELSE <<>>)
        \o (IF Len(notImpl) > 0
            THEN <<file.filename \o ": " \o ToString(Len(notImpl))
                     \o " \"not implemented\" stub(s)">> ELSE <<>>)
  IN  [issues |-> issues,
       totalIssueCount |->
         Len(emptyFunctions) + Len(todos) + Len(passStmts)
           + (IF flagged THEN Len(placeholders) ELSE 0) + Len(notImpl),
       totalLinesChanged |-> Len(addedLines)]

\* the loop over files; a file without patch text is skipped
placeholderScan(files) ==
  LET patched == SelectSeq(files, LAMBDA file : file.patch # "")
      scans   == [k \in 1..Len(patched) |-> placeholderScanFile(patched[k])] \o <<>>
  IN  [issues |-> Flatten([k \in 1..Len(scans) |-> scans[k].issues]),
       totalIssueCount |->
         Sum([k \in 1..Len(scans) |-> scans[k].totalIssueCount]),
       totalLinesChanged |->
         Sum([k \in 1..Len(scans) |-> scans[k].totalLinesChanged])]

placeholderCheck(files) ==
  LET scan == placeholderScan(files)
      issues == scan.issues
      totalIssueCount == scan.totalIssueCount
      totalLinesChanged == scan.totalLinesChanged
      issueRate ==
        DDivInt(DFromInt(totalIssueCount),
                IF totalLinesChanged > 1 THEN totalLinesChanged ELSE 1)
      n == ToString(totalIssueCount)
  IN  IF totalLinesChanged = 0
      THEN CheckResult("placeholder", 0, "No code changes to analyze.")
      ELSE IF totalIssueCount = 0
      THEN CheckResult("placeholder", 0, "No placeholder code detected.")
      ELSE IF DLt(issueRate, DLit(2, 100))
      THEN CheckResult("placeholder", 15,
             "Minor: " \o n \o " placeholder issue(s) found. "
               \o join(slice(issues, 2), "; ") \o ".")
      ELSE IF DLt(issueRate, DLit(5, 100))
      THEN CheckResult("placeholder", 40,
             "Moderate placeholder code detected (" \o n \o " issues). "
               \o join(slice(issues, 3), "; ") \o ".")
      ELSE IF DLt(issueRate, DLit(1, 10))
      THEN CheckResult("placeholder", 70,
             "Significant placeholder code: " \o n \o " issues across "
               \o ToString(Len(issues)) \o " file(s). "
               \o join(slice(issues, 3), "; ") \o ".")
      ELSE CheckResult("placeholder", 95,
             "Heavily stubbed code: " \o n \o " placeholder issues in "
               \o ToString(totalLinesChanged) \o " lines. "
               \o join(slice(issues, 4), "; ") \o ".")

\* a module specifier: [^'"./][^'"]* between quotes
quotedModule ==
  Cat(<<Quote, Group(Cat(<<NoneOf("'\"./"), Star(NoneOf("'\""))>>)), Quote>>)

importPatterns ==
  << Cat(<<Bol, Lit("+"), Star(AnyChar), WordBoundary, Lit("from"), Spaces,
           quotedModule>>),
     Cat(<<Bol, Lit("+"), Star(AnyChar), WordBoundary, Lit("require"), Spaces0,
           Lit("("), Spaces0, quotedModule, Spaces0, Lit(")")>>),
     Cat(<<Bol, Lit("+"), Spaces0, Lit("import"), Spaces, quotedModule>>),
     Cat(<<Bol, Lit("+"), Spaces0, AnyOf(<<"import", "from">>), Spaces,
           Group(Cat(<<OneOf(LowerCase \o UpperCase \o "_"),
                       Star(OneOf(WordChars))>>)),
           Alt(<<Space, Eol, Lit(".")>>)>>) >>

builtins ==
  {"fs", "path", "os", "util", "http", "https", "crypto", "stream", "events",
   "buffer", "child_process", "cluster", "dgram", "dns", "net", "readline",
   "tls", "url", "zlib", "assert", "querystring", "string_decoder", "timers",
   "tty", "v8", "vm", "worker_threads", "perf_hooks", "async_hooks",
   "node:fs", "node:path", "node:os", "node:util", "node:http", "node:https",
   "node:crypto", "node:stream", "node:events", "node:buffer",
   "node:child_process", "node:url", "node:test", "node:assert",
   "sys", "json", "math", "time", "datetime", "re", "typing", "collections",
   "itertools", "functools", "pathlib", "io", "abc", "logging", "unittest",
   "argparse", "hashlib", "base64", "copy", "dataclasses", "enum",
   "contextlib", "threading", "subprocess", "tempfile", "shutil", "glob",
   "random", "string", "textwrap"}

\* '@scope/name/deep' -> '@scope/name', 'name/deep' -> 'name'
baseModuleOf(moduleName) ==
  IF startsWith(moduleName, "@")
  THEN join(slice(split(moduleName, "/"), 2), "/")
  ELSE split(moduleName, "/")[1]

\* every match of every pattern in one patch, pattern by pattern
\* the matches of every pattern in one patch, pattern by pattern
importsOfPatch(file) ==
  Flatten([k \in 1..Len(importPatterns) |->
             LET ms == ReMatches(importPatterns[k], file.patch, 1, FlagM)
             IN  [j \in 1..Len(ms) |->
                    [file |-> file.filename,
                     module |-> baseModuleOf(ms[j].cap)]]])

importsOf_FirstFileOnly(files) ==
  IF files = <<>> THEN <<>> ELSE importsOfPatch(files[1])

\* the loop over files; a file without patch text is skipped
importsOf(files) ==
  LET patched == SelectSeq(files, LAMBDA file : file.patch # "")
  IN  Flatten([k \in 1..Len(patched) |-> importsOfPatch(patched[k])])

hallucinatedImportCheck(files, projectDeps) ==
  LET imports == importsOf(files)
      totalImports == Len(imports)
      suspiciousImports ==
        SelectSeq(imports,
                  LAMBDA si : si.module \notin builtins /\ si.module \notin projectDeps)
      n == Len(suspiciousImports)
      suspiciousRate == DDivInt(DFromInt(n), totalImports)
      modules == unique([k \in 1..n |-> suspiciousImports[k].module])
  IN  IF totalImports = 0
      THEN CheckResult("hallucinated_import", 0,
             "No imports detected in the changed files.")
      ELSE IF n = 0
      THEN CheckResult("hallucinated_import", 0,
             "All imports reference known project dependencies.")
      ELSE IF n = 1 /\ DLt(suspiciousRate, DLit(2, 10))
      THEN CheckResult("hallucinated_import", 25,
             "One potentially hallucinated import: '" \o suspiciousImports[1].module
               \o "' in " \o suspiciousImports[1].file
               \o ". This module is not listed in the project dependencies.")
      ELSE IF DLt(suspiciousRate, DLit(3, 10))
      THEN CheckResult("hallucinated_import", 55,
             ToString(n) \o " import(s) reference modules not in project dependencies: "
               \o join(slice(modules, 5), ", ") \o ".")
      ELSE CheckResult("hallucinated_import", 90,
             ToString(n) \o " of " \o ToString(totalImports) \o " imports ("
               \o toFixed0(DMulInt(suspiciousRate, 100))
               \o "%) reference unknown modules: " \o join(slice(modules, 5), ", ")
               \o ". Strongly suggests hallucinated dependencies.")

singleLineComment ==
  Cat(<<Bol, Lit("+"), Spaces0, AnyOf(<<"//", "#", "--", ";">>), Space>>)
blockCommentStart ==
  Cat(<<Bol, Lit("+"), Spaces0,
        AnyOf(<<"/*", "*", "\"\"\"", "'''", "<!--">>)>>)
blockCommentEnd ==
  Cat(<<AnyOf(<<"*/", "\"\"\"", "'''", "-->">>), Spaces0, Eol>>)
docstringLine == Cat(<<Bol, Lit("+"), Spaces0, Lit("*"), Space>>)
emptyLine     == Cat(<<Bol, Lit("+"), Spaces0, Eol>>)

isCommentLine(line) ==
  \/ ReTest(singleLineComment, line, NoFlags)
  \/ ReTest(blockCommentStart, line, NoFlags)
  \/ ReTest(blockCommentEnd, line, NoFlags)
  \/ ReTest(docstringLine, line, NoFlags)

\* the added lines of every file that has patch text
allAddedLines(files) ==
  LET patched == SelectSeq(files, LAMBDA file : file.patch # "")
  IN  Flatten([k \in 1..Len(patched) |-> addedLinesOf(patched[k].patch)])

docstringInflationCheck(files) ==
  LET lines == SelectSeq(allAddedLines(files),
                         LAMBDA line : ~ReTest(emptyLine, line, NoFlags))
      totalCommentLines == Len(SelectSeq(lines, isCommentLine))
      totalLines == Len(lines)
      commentRatio == DDivInt(DFromInt(totalCommentLines), totalLines)
      percent == toFixed0(DMulInt(commentRatio, 100))
      counts == ToString(totalCommentLines) \o "/" \o ToString(totalLines)
  IN  IF totalLines < 10
      THEN CheckResult("docstring_inflation", 0,
             "Too few lines to assess comment ratio.")
      ELSE IF DLe(commentRatio, DLit(3, 10))
      THEN CheckResult("docstring_inflation", 0,
             "Healthy comment ratio: " \o percent \o "% comments (" \o counts
               \o " lines).")
      ELSE IF DLe(commentRatio, DLit(45, 100))
      THEN CheckResult("docstring_inflation", 15,
             "Above-average comment ratio: " \o percent
               \o "%. Well-documented code is fine, but AI-generated code often over-documents trivial logic.")
      ELSE IF DLe(commentRatio, DLit(6, 10))
      THEN CheckResult("docstring_inflation", 45,
             "High comment ratio: " \o percent \o "% of added lines are comments ("
               \o counts \o "). Often a sign of AI-generated code padding.")
      ELSE IF DLe(commentRatio, DLit(75, 100))
      THEN CheckResult("docstring_inflation", 75,
             "Excessive commenting: " \o percent
               \o "% of the PR is comments/docstrings. AI tools frequently generate verbose comments to pad otherwise thin contributions.")
      ELSE CheckResult("docstring_inflation", 95,
             "Extreme comment inflation: " \o percent
               \o "% comments. This PR is mostly documentation with minimal actual code.")

\* normalizeCode: comments out, runs of white space to one blank, trimmed
normalizeCode(code) ==
  LET noLineComments ==
        ReReplaceAll(Cat(<<Lit("//"), Star(AnyChar), Eol>>), code, "", FlagM)
      noBlockComments ==
        ReReplaceAll(Cat(<<Lit("/*"), LazyStar(AnyOrNewline), Lit("*/")>>),
                     noLineComments, "", NoFlags)
      noHashComments ==
        ReReplaceAll(Cat(<<Lit("#"), Star(AnyChar), Eol>>), noBlockComments, "",
                     FlagM)
  IN  trim(ReReplaceAll(Spaces, noHashComments, " ", NoFlags))

\* the block that is open when the patch ends is forgotten
blocksOfPatch_NoLastBlock(filename, lines) ==
  LET n == Len(lines)
      isAdded(i) == startsWith(lines[i], "+") /\ ~startsWith(lines[i], "+++")
      breaks == <<0>> \o SelectSeq(Indices(n), LAMBDA i : ~isAdded(i))
      currentBlock(k) ==
        SelectSeq([i \in 1..(breaks[k + 1] - breaks[k] - 1) |->
                     trim(substring(lines[breaks[k] + i], 1))],
                  LAMBDA cleanLine : Len(cleanLine) > 0)
      pushed == SelectSeq([k \in 1..(Len(breaks) - 1) |-> currentBlock(k)],
                          LAMBDA block : Len(block) >= 4)
  IN  [k \in 1..Len(pushed) |->
         [file |-> filename, block |-> join(pushed[k], "\n"),
          lineCount |-> Len(pushed[k])]]

\* the loop over the lines of one patch: a line that is not an added line
\* ends the current block, the end of the patch ends the last one, and a
\* block is pushed when it has at least 4 non-blank lines
blocksOfPatch(filename, lines) ==
  LET n == Len(lines)
      isAdded(i) == startsWith(lines[i], "+") /\ ~startsWith(lines[i], "+++")
      breaks == <<0>> \o SelectSeq(Indices(n), LAMBDA i : ~isAdded(i))
                  \o <<n + 1>>
      currentBlock(k) ==
        SelectSeq([i \in 1..(breaks[k + 1] - breaks[k] - 1) |->
                     trim(substring(lines[breaks[k] + i], 1))],
                  LAMBDA cleanLine : Len(cleanLine) > 0)
      pushed == SelectSeq([k \in 1..(Len(breaks) - 1) |-> currentBlock(k)],
                          LAMBDA block : Len(block) >= 4)
  IN  [k \in 1..Len(pushed) |->
         [file |-> filename, block |-> join(pushed[k], "\n"),
          lineCount |-> Len(pushed[k])]]

\* the loop over files; a file without patch text is skipped
codeBlocksOf(files) ==
  LET patched == SelectSeq(files, LAMBDA file : file.patch # "")
  IN  Flatten([k \in 1..Len(patched) |->
                 blocksOfPatch(patched[k].filename,
                               split(patched[k].patch, "\n"))])

duplicatePairsOf_Adjacent(codeBlocks) ==
  LET normalized == [k \in 1..Len(codeBlocks) |-> normalizeCode(codeBlocks[k].block)]
      minLines(i, j) ==
        IF codeBlocks[i].lineCount < codeBlocks[j].lineCount
        THEN codeBlocks[i].lineCount ELSE codeBlocks[j].lineCount
      maxLines(i, j) ==
        IF codeBlocks[i].lineCount > codeBlocks[j].lineCount
        THEN codeBlocks[i].lineCount ELSE codeBlocks[j].lineCount
      isDuplicate(i, j) ==
        /\ ~DLt(DFromInt(minLines(i, j)), DMulInt(DLit(7, 10), maxLines(i, j)))
        /\ normalized[i] = normalized[j]
        /\ Len(normalized[i]) > 50
      next == SelectSeq(Indices(Len(codeBlocks)),
                        LAMBDA i : i < Len(codeBlocks) /\ isDuplicate(i, i + 1))
  IN  [k \in 1..Len(next) |->
         [a |-> next[k], b |-> next[k] + 1, lines |-> minLines(next[k], next[k] + 1)]]

\* the pairs i < j of blocks that count as duplicates, in loop order
duplicatePairsOf(codeBlocks) ==
  LET normalized == [k \in 1..Len(codeBlocks) |-> normalizeCode(codeBlocks[k].block)]
      minLines(i, j) ==
        IF codeBlocks[i].lineCount < codeBlocks[j].lineCount
        THEN codeBlocks[i].lineCount ELSE codeBlocks[j].lineCount
      maxLines(i, j) ==
        IF codeBlocks[i].lineCount > codeBlocks[j].lineCount
        THEN codeBlocks[i].lineCount ELSE codeBlocks[j].lineCount
      isDuplicate(i, j) ==
        /\ ~DLt(DFromInt(minLines(i, j)), DMulInt(DLit(7, 10), maxLines(i, j)))
        /\ normalized[i] = normalized[j]
        /\ Len(normalized[i]) > 50
      pairsFrom(i) ==
        SelectSeq([j \in 1..Len(codeBlocks) |->
                     [a |-> i, b |-> j, lines |-> minLines(i, j)]],
                  LAMBDA pr : pr.b > i /\ isDuplicate(i, pr.b))
  IN  Flatten([i \in 1..Len(codeBlocks) |-> pairsFrom(i)])

sumLines(pairs) == Sum([k \in 1..Len(pairs) |-> pairs[k].lines])

copyPasteCheck(files) ==
  LET codeBlocks == codeBlocksOf(files)
      duplicatePairs == duplicatePairsOf(codeBlocks)
      duplicateCount == Len(duplicatePairs)
      duplicatedLines == sumLines(duplicatePairs)
      dc == ToString(duplicateCount)
      dl == ToString(duplicatedLines)
  IN  IF duplicateCount = 0
      THEN CheckResult("copy_paste", 0, "No internal code duplication detected.")
      ELSE IF duplicateCount = 1 /\ duplicatedLines < 15
      THEN CheckResult("copy_paste", 20,
             "Minor duplication: 1 repeated block (~" \o dl \o " lines) between "
               \o codeBlocks[duplicatePairs[1].a].file \o " and "
               \o codeBlocks[duplicatePairs[1].b].file \o ".")
      ELSE IF duplicateCount <= 3
      THEN CheckResult("copy_paste", 50,
             dc \o " duplicated code blocks found (~" \o dl
               \o " lines total). AI-generated PRs often contain copy-pasted code with minimal variation.")
      ELSE CheckResult("copy_paste", 85,
             "Significant internal duplication: " \o dc \o " repeated blocks (~"
               \o dl \o " lines). This is a strong indicator of bulk-generated code.")

\* ------------------------------------------------------------------------
\* Dates: a time value is [nan, days, ms], whole days since 1970-01-01 and
\* the milliseconds into that day; nan marks an Invalid Date
\* ------------------------------------------------------------------------
DayMs == 1000 * 60 * 60 * 24

TimeValue(days, ms) == [nan |-> FALSE, days |-> days, ms |-> ms]
InvalidDate == [nan |-> TRUE, days |-> 0, ms |-> 0]

IsDigits(s) == \A i \in 1..Len(s) : IndexOfChar(Digits, CharAt(s, i), 1) > 0

RECURSIVE ToNumber(_)
ToNumber(s) ==
  IF s = "" THEN 0
  ELSE 10 * ToNumber(SubSeq(s, 1, Len(s) - 1))
         + (IndexOfChar(Digits, CharAt(s, Len(s)), 1) - 1)

IsLeapYear(y) == (y % 4 = 0 /\ y % 100 # 0) \/ y % 400 = 0

DaysInMonth(y, m) ==
  IF m = 2 THEN (IF IsLeapYear(y) THEN 29 ELSE 28)
  ELSE IF m \in {4, 6, 9, 11} THEN 30 ELSE 31

\* days from 1970-01-01 to the first day of year y >= 1970
DaysBeforeYear(y) ==
  365 * (y - 1970) + ((y - 1969) \div 4) - ((y - 1901) \div 100)
    + ((y - 1601) \div 400)

RECURSIVE DaysBeforeMonth(_, _)
DaysBeforeMonth(y, m) ==
  IF m = 1 THEN 0 ELSE DaysBeforeMonth(y, m - 1) + DaysInMonth(y, m - 1)

\* new Date(text) of the timestamps the GitHub API sends,
\* YYYY-MM-DDTHH:MM:SSZ with an optional .mmm before the Z; a text that is
\* no date-time gives an Invalid Date
DateParse(s) ==
  LET part(a, b) == SubSeq(s, a, b)
      shape == /\ Len(s) \in {20, 24}
               /\ IsDigits(part(1, 4)) /\ part(5, 5) = "-"
               /\ IsDigits(part(6, 7)) /\ part(8, 8) = "-"
               /\ IsDigits(part(9, 10)) /\ part(11, 11) = "T"
               /\ IsDigits(part(12, 13)) /\ part(14, 14) = ":"
               /\ IsDigits(part(15, 16)) /\ part(17, 17) = ":"
               /\ IsDigits(part(18, 19))
               /\ IF Len(s) = 20 THEN part(20, 20) = "Z"
                  ELSE /\ part(20, 20) = "." /\ IsDigits(part(21, 23))
                       /\ part(24, 24) = "Z"
      y  == ToNumber(part(1, 4))
      mo == ToNumber(part(6, 7))
      d  == ToNumber(part(9, 10))
      h  == ToNumber(part(12, 13))
      mi == ToNumber(part(15, 16))
      sec == ToNumber(part(18, 19))
      milli == IF Len(s) = 24 THEN ToNumber(part(21, 23)) ELSE 0
  IN  IF ~shape THEN InvalidDate
      ELSE IF \/ y < 1970 \/ mo < 1 \/ mo > 12 \/ d < 1 \/ d > DaysInMonth(y, mo)
              \/ h > 23 \/ mi > 59 \/ sec > 59
      THEN InvalidDate
      ELSE TimeValue(DaysBeforeYear(y) + DaysBeforeMonth(y, mo) + (d - 1),
                     ((h * 60 + mi) * 60 + sec) * 1000 + milli)

\* the time n * DayMs milliseconds before t
TimeMinusDays(t, n) == [t EXCEPT !.days = t.days - n]

\* a >= b for two Dates: false when either is invalid
TimeGe(a, b) ==
  /\ ~a.nan /\ ~b.nan
  /\ a.days > b.days \/ (a.days = b.days /\ a.ms >= b.ms)

\* Math.floor((a - b) / DayMs) as [nan, n]
WholeDaysBetween(a, b) ==
  IF a.nan \/ b.nan THEN [nan |-> TRUE, n |-> 0]
  ELSE [nan |-> FALSE,
        n |-> (a.days - b.days) - (IF a.ms < b.ms THEN 1 ELSE 0)]

\* ------------------------------------------------------------------------
\* Behavioral checks (src/checks/behavioral.ts)
\* a ContributorPR is [number, title, body, created_at]; body "" stands for
\* null as well as for the empty text: both are falsy
\* ------------------------------------------------------------------------
velocityCheck_CountAll(recentPRs, now) ==
  LET recentCount == Len(recentPRs)
      n == ToString(recentCount)
  IN  IF recentCount <= 3
      THEN CheckResult("velocity", 0,
             "Normal activity: " \o n \o " PR(s) in the last 24 hours.")
      ELSE IF recentCount <= 5
      THEN CheckResult("velocity", 50, "Elevated activity: " \o n)
      ELSE IF recentCount <= 10
      THEN CheckResult("velocity", 80, "High velocity: " \o n)
      ELSE CheckResult("velocity", 100, "Extreme velocity: " \o n)

velocityCheck(recentPRs, now) ==
  LET twentyFourHoursAgo == TimeMinusDays(now, 1)
      recentCount ==
        Len(SelectSeq(recentPRs,
              LAMBDA pr : TimeGe(DateParse(pr.created_at), twentyFourHoursAgo)))
      n == ToString(recentCount)
  IN  IF recentCount <= 3
      THEN CheckResult("velocity", 0,
             "Normal activity: " \o n \o " PR(s) in the last 24 hours.")
      ELSE IF recentCount <= 5
      THEN CheckResult("velocity", 50,
             "Elevated activity: " \o n
               \o " PRs in the last 24 hours. This is above typical contributor behavior.")
      ELSE IF recentCount <= 10
      THEN CheckResult("velocity", 80,
             "High velocity: " \o n
               \o " PRs in the last 24 hours. This pattern is consistent with automated PR generation.")
      ELSE CheckResult("velocity", 100,
             "Extreme velocity: " \o n
               \o " PRs in the last 24 hours. Almost certainly automated.")

abandonmentCheck_NoHistoryGuard(stats) ==
  IF DLe(stats.rate, DFromInt(30))
  THEN CheckResult("abandonment", 0, "Healthy contribution pattern")
  ELSE IF DLe(stats.rate, DFromInt(50))
  THEN CheckResult("abandonment", 25, "Moderate abandonment")
  ELSE IF DLe(stats.rate, DFromInt(70))
  THEN CheckResult("abandonment", 50, "Elevated abandonment")
  ELSE IF DLe(stats.rate, DFromInt(90))
  THEN CheckResult("abandonment", 80, "High abandonment")
  ELSE CheckResult("abandonment", 100, "Near-total abandonment")

\* stats is [total, abandoned, rate] with rate a double
abandonmentCheck(stats) ==
  LET pct == toFixed0(stats.rate)
      of  == ToString(stats.abandoned) \o "/" \o ToString(stats.total)
  IN  IF stats.total < 3
      THEN CheckResult("abandonment", 0,
             "Insufficient history: only " \o ToString(stats.total)
               \o " previous PR(s). Cannot assess abandonment pattern.")
      ELSE IF DLe(stats.rate, DFromInt(30))
      THEN CheckResult("abandonment", 0,
             "Healthy contribution pattern: " \o pct \o "% abandonment rate ("
               \o of \o " PRs).")
      ELSE IF DLe(stats.rate, DFromInt(50))
      THEN CheckResult("abandonment", 25,
             "Moderate abandonment: " \o pct
               \o "% of PRs closed without merge (" \o of \o ").")
      ELSE IF DLe(stats.rate, DFromInt(70))
      THEN CheckResult("abandonment", 50,
             "Elevated abandonment: " \o pct
               \o "% of PRs were never merged (" \o of \o ").")
      ELSE IF DLe(stats.rate, DFromInt(90))
      THEN CheckResult("abandonment", 80,
             "High abandonment: " \o pct \o "% of PRs abandoned (" \o of
               \o "). Consistent with spray-and-pray behavior.")
      ELSE CheckResult("abandonment", 100,
             "Near-total abandonment: " \o pct \o "% of PRs discarded (" \o of
               \o "). Strongly suggests automated low-quality contributions.")

\* str.split(/\s+/)
splitOnSpaces(s) ==
  LET ms == ReMatches(Spaces, s, 1, NoFlags)
      piece(k) ==
        LET from == IF k = 1 THEN 1 ELSE ms[k - 1].end
            to   == IF k > Len(ms) THEN Len(s) ELSE ms[k].start - 1
        IN  SubSeq(s, from, to)
  IN  [k \in 1..(Len(ms) + 1) |-> piece(k)]

jaccardSimilarity_OverFirst(a, b) ==
  LET wordsA == {splitOnSpaces(a)[k] : k \in DOMAIN splitOnSpaces(a)}
      wordsB == {splitOnSpaces(b)[k] : k \in DOMAIN splitOnSpaces(b)}
  IN  DDivInt(DFromInt(Cardinality(wordsA \cap wordsB)), Cardinality(wordsA))

\* word-based similarity of two long texts, a double
jaccardSimilarity(a, b) ==
  LET wordsA == {splitOnSpaces(a)[k] : k \in DOMAIN splitOnSpaces(a)}
      wordsB == {splitOnSpaces(b)[k] : k \in DOMAIN splitOnSpaces(b)}
      intersection == Cardinality(wordsA \cap wordsB)
      union == Cardinality(wordsA) + Cardinality(wordsB) - intersection
  IN  IF union = 0 THEN DZero
      ELSE DDivInt(DFromInt(intersection), union)

\* the least entry of d up to each position
RECURSIVE PrefixMin(_)
PrefixMin(d) ==
  IF Len(d) <= 1 THEN d
  ELSE LET half  == Len(d) \div 2
           left  == PrefixMin(SubSeq(d, 1, half))
           right == PrefixMin(SubSeq(d, half + 1, Len(d)))
           low   == left[half]
       IN  left \o [k \in 1..Len(right) |->
                      IF right[k] < low THEN right[k] ELSE low]

\* row i of the edit-distance matrix from row i - 1, columns 0..Len(b), held
\* at positions 1..Len(b) + 1. An entry is the least of the entry above plus
\* 1, the diagonal entry plus cost and the entry to its left plus 1; taking
\* the entries to the left one after the other, that is the least over the
\* positions k up to it of the first two at k, plus the distance from k
levenshteinRow(a, b, i, prev) ==
  LET cost(j) == IF CharAt(a, i) = CharAt(b, j) THEN 0 ELSE 1
      fromAbove ==
        [k \in 1..Len(prev) |->
           IF k = 1 THEN i
           ELSE IF prev[k] + 1 < prev[k - 1] + cost(k - 1) THEN prev[k] + 1
           ELSE prev[k - 1] + cost(k - 1)]
      low == PrefixMin([k \in 1..Len(prev) |-> fromAbove[k] - k])
  IN  [k \in 1..Len(prev) |-> low[k] + k] \o <<>>

\* rows lo..hi computed one after the other from row lo - 1: the last of them
RECURSIVE levenshteinRows(_, _, _, _, _)
levenshteinRows(a, b, lo, hi, prev) ==
  IF lo > hi \/ prev = <<>> THEN prev
  ELSE IF lo = hi THEN levenshteinRow(a, b, lo, prev)
  ELSE LET mid == (lo + hi) \div 2
       IN  levenshteinRows(a, b, mid + 1, hi,
                           levenshteinRows(a, b, lo, mid, prev))

\* matrix[a.length][b.length]
levenshteinDistance(a, b) ==
  levenshteinRows(a, b, 1, Len(a),
                  [j \in 1..(Len(b) + 1) |-> j - 1])[Len(b) + 1]

\* a double between 0 and 1
levenshteinSimilarity(a, b) ==
  IF a = b THEN DFromInt(1)
  ELSE IF Len(a) = 0 \/ Len(b) = 0 THEN DZero
  ELSE IF Len(a) > 500 \/ Len(b) > 500 THEN jaccardSimilarity(a, b)
  ELSE LET maxLen == IF Len(a) > Len(b) THEN Len(a) ELSE Len(b)
       IN  DSub(DFromInt(1), DDivInt(DFromInt(levenshteinDistance(a, b)), maxLen))

shotgunCheck_MatchSelf(currentPR, publicPRs) ==
  LET currentTitle == trim(toLowerCase(currentPR.title))
      currentBody  == trim(toLowerCase(currentPR.body))
      titleMatch(pr) ==
        LET prTitle == trim(toLowerCase(pr.title))
        IN  \/ prTitle = currentTitle
            \/ DLt(DLit(85, 100), levenshteinSimilarity(prTitle, currentTitle))
      bodyMatch(pr) ==
        LET prBody == trim(toLowerCase(pr.body))
        IN  /\ Len(currentBody) > 20 /\ Len(prBody) > 20
            /\ DLt(DLit(80, 100), levenshteinSimilarity(prBody, currentBody))
      titleMatches == Len(SelectSeq(publicPRs, titleMatch))
      bodyMatches  == Len(SelectSeq(publicPRs, bodyMatch))
  IN  IF Len(publicPRs) = 0 \/ (titleMatches = 0 /\ bodyMatches = 0)
      THEN CheckResult("shotgun", 0, "unique")
      ELSE IF titleMatches >= 3 \/ bodyMatches >= 2
      THEN CheckResult("shotgun", 90, "Shotgun pattern detected")
      ELSE IF titleMatches >= 2 \/ 2 * titleMatches > Len(publicPRs)
      THEN CheckResult("shotgun", 60, "Possible shotgun pattern")
      ELSE CheckResult("shotgun", 25, "Minor overlap")

shotgunCheck(currentPR, publicPRs) ==
  LET currentTitle == trim(toLowerCase(currentPR.title))
      currentBody  == trim(toLowerCase(currentPR.body))
      otherRepoPRs ==
        SelectSeq(publicPRs, LAMBDA pr : pr.number # currentPR.number)
      titleMatch(pr) ==
        LET prTitle == trim(toLowerCase(pr.title))
        IN  \/ prTitle = currentTitle
            \/ DLt(DLit(85, 100), levenshteinSimilarity(prTitle, currentTitle))
      bodyMatch(pr) ==
        LET prBody == trim(toLowerCase(pr.body))
        IN  /\ Len(currentBody) > 20 /\ Len(prBody) > 20
            /\ DLt(DLit(80, 100), levenshteinSimilarity(prBody, currentBody))
      titleMatches == Len(SelectSeq(otherRepoPRs, titleMatch))
      bodyMatches  == Len(SelectSeq(otherRepoPRs, bodyMatch))
      totalOtherPRs == Len(otherRepoPRs)
      titleMatchRate == DDivInt(DFromInt(titleMatches), totalOtherPRs)
      tm == ToString(titleMatches)
      bm == ToString(bodyMatches)
  IN  IF totalOtherPRs = 0
      THEN CheckResult("shotgun", 0,
             "No other recent public PRs found for comparison.")
      ELSE IF titleMatches = 0 /\ bodyMatches = 0
      THEN CheckResult("shotgun", 0,
             "PR title and description appear unique across contributor activity.")
      ELSE IF titleMatches >= 3 \/ bodyMatches >= 2
      THEN CheckResult("shotgun", 90,
             "Shotgun pattern detected: PR title matches " \o tm
               \o " other recent PRs, body matches " \o bm
               \o ". This contributor is submitting nearly identical PRs to multiple repositories.")
      ELSE IF titleMatches >= 2 \/ DLt(DLit(5, 10), titleMatchRate)
      THEN CheckResult("shotgun", 60,
             "Possible shotgun pattern: PR title matches " \o tm
               \o " other PR(s). Similar PRs found across repos.")
      ELSE CheckResult("shotgun", 25,
             "Minor overlap: " \o tm \o " title match(es), " \o bm
               \o " body match(es) with other recent PRs.")

\* the number as JavaScript prints it in a template
NumberText(x) == IF x.nan THEN "NaN" ELSE ToString(x.n)

newAccountCheck_SelfIsPrior(pr, recentRepoPRs, now) ==
  LET accountAgeDays == WholeDaysBetween(now, DateParse(pr.user.created_at))
      isFirstPR == Len(recentRepoPRs) = 0
      atLeast(n) == ~accountAgeDays.nan /\ accountAgeDays.n >= n
  IN  IF atLeast(30) THEN CheckResult("new_account", 0, "Not flagged")
      ELSE IF ~isFirstPR THEN CheckResult("new_account", 10, "has prior PRs")
      ELSE IF atLeast(14) THEN CheckResult("new_account", 30, "New account")
      ELSE IF atLeast(7) THEN CheckResult("new_account", 50, "Very new account")
      ELSE CheckResult("new_account", 70, "Brand new account")

newAccountCheck(pr, recentRepoPRs, now) ==
  LET accountCreated == DateParse(pr.user.created_at)
      accountAgeDays == WholeDaysBetween(now, accountCreated)
      age == NumberText(accountAgeDays)
      priorPRs == SelectSeq(recentRepoPRs, LAMBDA rp : rp.number # pr.number)
      isFirstPR == Len(priorPRs) = 0
      atLeast(n) == ~accountAgeDays.nan /\ accountAgeDays.n >= n
  IN  IF atLeast(30)
      THEN CheckResult("new_account", 0,
             "Account is " \o age \o " days old. Not flagged as a new account.")
      ELSE IF ~isFirstPR
      THEN CheckResult("new_account", 10,
             "Account is " \o age \o " days old but has prior PRs to this repo.")
      ELSE IF atLeast(14)
      THEN CheckResult("new_account", 30,
             "New account (" \o age
               \o " days old) with first PR to this repo. Worth a closer look.")
      ELSE IF atLeast(7)
      THEN CheckResult("new_account", 50,
             "Very new account (" \o age
               \o " days old) submitting first PR to this repo.")
      ELSE CheckResult("new_account", 70,
             "Brand new account (" \o age
               \o " days old) submitting first-ever PR to this repo. Elevated risk of being a throwaway account.")

\* getContributorAbandonmentRate: the stats from the search result, or the
\* zero stats when the search fails
getContributorAbandonmentRate(search) ==
  IF ~search.ok \/ search.total_count = 0
  THEN [total |-> 0, abandoned |-> 0, rate |-> DZero]
  ELSE [total |-> search.total_count, abandoned |-> search.unmerged,
        rate |-> DMulInt(DDivInt(DFromInt(search.unmerged), search.total_count),
                         100)]

\* ------------------------------------------------------------------------
\* Pattern checks (src/src/checks/patterns.ts)
\* ------------------------------------------------------------------------

genericTitles ==
  << Anchored(<<Lit("fix"), Opt(AnyOf(<<"ed", "es", "ing">>)), Spaces,
                Opt(Cat(<<Lit("a"), Spaces>>)), Lit("bug"), Opt(Lit("s"))>>),
     Anchored(<<Lit("update"), Opt(AnyOf(<<"d", "s">>)), Spaces, Lit("code")>>),
     Anchored(<<Lit("improve"), Opt(AnyOf(<<"d", "s">>)), Spaces,
                Opt(Cat(<<Lit("the"), Spaces>>)), Lit("performance")>>),
     Anchored(<<Opt(Cat(<<Lit("minor"), Spaces>>)), Lit("fix"), Opt(Lit("es"))>>),
     Anchored(<<Lit("update"), Opt(AnyOf(<<"d", "s">>))>>),
     Anchored(<<Lit("improve"), Opt(Lit("ment")), Opt(Lit("s"))>>),
     Anchored(<<Lit("refactor"), Opt(AnyOf(<<"ed", "ing">>))>>),
     Anchored(<<Lit("clean"), Spaces0, Lit("up")>>),
     Anchored(<<Lit("enhance"), Opt(Lit("ment")), Opt(Lit("s"))>>),
     Anchored(<<Lit("optimization")>>),
     Anchored(<<Lit("bug"), Spaces0, Lit("fix")>>),
     Anchored(<<Lit("patch")>>),
     Anchored(<<Lit("changes")>>),
     Anchored(<<Lit("update"), Opt(Lit("s")),
                Opt(Cat(<<Spaces, Opt(Cat(<<Lit("to"), Spaces>>)),
                          Opt(Cat(<<Lit("the"), Spaces>>)), Lit("code")>>))>>),
     Anchored(<<Lit("fix"), Opt(Lit("ed")), Spaces,
                Opt(Cat(<<Lit("some"), Spaces>>)),
                Alt(<<Cat(<<Lit("issue"), Opt(Lit("s"))>>),
                      Cat(<<Lit("problem"), Opt(Lit("s"))>>),
                      Cat(<<Lit("error"), Opt(Lit("s"))>>)>>)>>),
     Anchored(<<Lit("code"), Spaces,
                Alt(<<Lit("improvement"), Lit("cleanup"),
                      Cat(<<Lit("refactor"), Opt(Lit("ing"))>>)>>)>>),
     Anchored(<<Lit("improve"), Opt(Lit("d")), Spaces, Lit("code"), Spaces,
                Lit("quality")>>),
     Anchored(<<Lit("general"), Spaces,
                Alt(<<Cat(<<Lit("improvement"), Opt(Lit("s"))>>), Lit("fixes"),
                      Cat(<<Lit("update"), Opt(Lit("s"))>>)>>)>>),
     Anchored(<<Lit("misc"), Opt(Lit("ellaneous")), Spaces,
                Alt(<<Lit("fixes"), Lit("changes"),
                      Cat(<<Lit("update"), Opt(Lit("s"))>>)>>)>>),
     Anchored(<<Lit("small"), Spaces,
                Alt(<<Cat(<<Lit("fixe"), Opt(Lit("s"))>>),
                      Cat(<<Lit("change"), Opt(Lit("s"))>>),
                      Cat(<<Lit("update"), Opt(Lit("s"))>>)>>)>>),
     Anchored(<<Lit("various"), Spaces,
                Alt(<<Cat(<<Lit("fixe"), Opt(Lit("s"))>>),
                      Cat(<<Lit("improvement"), Opt(Lit("s"))>>),
                      Cat(<<Lit("update"), Opt(Lit("s"))>>)>>)>>) >>

aiDescriptionPatterns ==
  << Cat(<<Lit("this "), AnyOf(<<"pr", "pull request", "commit">>), Lit(" "),
           AnyOf(<<"fixes", "improves", "updates", "enhances", "refactors">>)>>),
     Cat(<<AnyOf(<<"improved", "enhanced", "optimized">>), Lit(" "),
           Opt(Lit("the ")), AnyOf(<<"overall", "code">>), Lit(" "),
           AnyOf(<<"quality", "performance", "readability">>)>>),
     Cat(<<Lit("made "), Opt(Lit("the ")),
           AnyOf(<<"following", "these", "some">>), Lit(" "),
           AnyOf(<<"changes", "improvements", "updates">>)>>),
     Cat(<<Lit("this "), AnyOf(<<"change", "update", "improvement">>), Lit(" "),
           AnyOf(<<"will", "should", "aims to">>)>>) >>

genericDescriptionCheck_TemplateFirst(pr) ==
  LET title == trim(toLowerCase(pr.title))
      body  == trim(toLowerCase(pr.body))
      isGenericTitle ==
        \E k \in 1..Len(genericTitles) : ReTest(genericTitles[k], title, NoFlags)
      hasAIDescription ==
        \E k \in 1..Len(aiDescriptionPatterns) :
          ReTest(aiDescriptionPatterns[k], body, NoFlags)
  IN  IF isGenericTitle /\ Len(body) < 20
      THEN CheckResult("generic_description", 85, "Generic PR title")
      ELSE IF isGenericTitle /\ hasAIDescription
      THEN CheckResult("generic_description", 70, "Generic title")
      ELSE IF isGenericTitle
      THEN CheckResult("generic_description", 50, "Generic PR title")
      ELSE IF hasAIDescription
      THEN CheckResult("generic_description", 20, "template-like language")
      ELSE IF Len(title) < 15 /\ Len(body) < 20
      THEN CheckResult("generic_description", 35, "Very short title")
      ELSE CheckResult("generic_description", 0, "specific")

genericDescriptionCheck(pr) ==
  LET title == trim(toLowerCase(pr.title))
      body  == trim(toLowerCase(pr.body))
      isGenericTitle ==
        \E k \in 1..Len(genericTitles) : ReTest(genericTitles[k], title, NoFlags)
      isTitleShort == Len(title) < 15
      hasNoBody    == Len(body) < 20
      hasAIDescription ==
        \E k \in 1..Len(aiDescriptionPatterns) :
          ReTest(aiDescriptionPatterns[k], body, NoFlags)
  IN  IF isGenericTitle /\ hasNoBody
      THEN CheckResult("generic_description", 85,
             "Generic PR title (\"" \o pr.title \o "\") with no meaningful description. AI-generated PRs frequently use vague titles like this.")
      ELSE IF isGenericTitle /\ hasAIDescription
      THEN CheckResult("generic_description", 70,
             "Generic title (\"" \o pr.title \o "\") paired with template-like description. Both the title and body follow common AI-generation patterns.")
      ELSE IF isGenericTitle
      THEN CheckResult("generic_description", 50,
             "Generic PR title (\"" \o pr.title \o "\"). Consider being more specific about what was changed and why.")
      ELSE IF isTitleShort /\ hasNoBody
      THEN CheckResult("generic_description", 35,
             "Very short title (\"" \o pr.title \o "\") with no description. Not necessarily AI-generated, but lacks the context reviewers need.")
      ELSE IF hasAIDescription /\ ~isGenericTitle
      THEN CheckResult("generic_description", 20,
             "PR description uses template-like language, but the title is specific enough.")
      ELSE CheckResult("generic_description", 0,
             "PR title and description appear specific and well-written.")

oversizedDiffCheck_NoRatioRow(pr) ==
  LET totalChanges == pr.additions + pr.deletions
      descriptionLength == Len(trim(pr.body))
  IN  IF totalChanges <= 100
      THEN CheckResult("oversized_diff", 0, "Small PR")
      ELSE IF totalChanges > 2000 /\ descriptionLength < 50
      THEN CheckResult("oversized_diff", 95, "Massive PR")
      ELSE IF totalChanges > 1000 /\ descriptionLength < 50
      THEN CheckResult("oversized_diff", 80, "Very large PR")
      ELSE IF totalChanges > 500 /\ descriptionLength < 50
      THEN CheckResult("oversized_diff", 65, "Large PR")
      ELSE IF totalChanges > 300 /\ descriptionLength < 30
      THEN CheckResult("oversized_diff", 30, "Moderately large PR")
      ELSE CheckResult("oversized_diff", 0, "proportional")

oversizedDiffCheck_RawBody(pr) ==
  LET totalChanges == pr.additions + pr.deletions
      descriptionLength == Len(pr.body)
      tenth == DMulInt(DLit(1, 10), totalChanges)
      expectedMinDescription ==
        IF DLt(tenth, DFromInt(200)) THEN tenth ELSE DFromInt(200)
      isUnderdocumented == DLt(DFromInt(descriptionLength), expectedMinDescription)
  IN  IF totalChanges <= 100
      THEN CheckResult("oversized_diff", 0, "Small PR")
      ELSE IF totalChanges > 2000 /\ descriptionLength < 50
      THEN CheckResult("oversized_diff", 95, "Massive PR")
      ELSE IF totalChanges > 1000 /\ descriptionLength < 50
      THEN CheckResult("oversized_diff", 80, "Very large PR")
      ELSE IF totalChanges > 500 /\ descriptionLength < 50
      THEN CheckResult("oversized_diff", 65, "Large PR")
      ELSE IF totalChanges > 500 /\ isUnderdocumented
      THEN CheckResult("oversized_diff", 40, "shorter than expected")
      ELSE IF totalChanges > 300 /\ descriptionLength < 30
      THEN CheckResult("oversized_diff", 30, "Moderately large PR")
      ELSE CheckResult("oversized_diff", 0, "proportional")

oversizedDiffCheck(pr) ==
  LET totalChanges == pr.additions + pr.deletions
      descriptionLength == Len(trim(pr.body))
      tc == ToString(totalChanges)
      dl == ToString(descriptionLength)
      tenth == DMulInt(DLit(1, 10), totalChanges)
      expectedMinDescription ==
        IF DLt(tenth, DFromInt(200)) THEN tenth ELSE DFromInt(200)
      isUnderdocumented == DLt(DFromInt(descriptionLength), expectedMinDescription)
  IN  IF totalChanges <= 100
      THEN CheckResult("oversized_diff", 0,
             "Small PR (" \o tc \o " lines changed). No size concern.")
      ELSE IF totalChanges > 2000 /\ descriptionLength < 50
      THEN CheckResult("oversized_diff", 95,
             "Massive PR (" \o tc \o " lines) with only " \o dl
               \o " characters of description. A change this large requires thorough explanation.")
      ELSE IF totalChanges > 1000 /\ descriptionLength < 50
      THEN CheckResult("oversized_diff", 80,
             "Very large PR (" \o tc \o " lines) with a " \o dl
               \o "-character description. The diff-to-description ratio is extremely unbalanced.")
      ELSE IF totalChanges > 500 /\ descriptionLength < 50
      THEN CheckResult("oversized_diff", 65,
             "Large PR (" \o tc \o " lines changed) with minimal description ("
               \o dl \o " chars). AI-generated PRs often dump large changes without explanation.")
      ELSE IF totalChanges > 500 /\ isUnderdocumented
      THEN CheckResult("oversized_diff", 40,
             "PR changes " \o tc
               \o " lines but the description is shorter than expected. Consider adding more context.")
      ELSE IF totalChanges > 300 /\ descriptionLength < 30
      THEN CheckResult("oversized_diff", 30,
             "Moderately large PR (" \o tc \o " lines) with brief description ("
               \o dl \o " chars).")
      ELSE CheckResult("oversized_diff", 0,
             "PR size (" \o tc \o " lines) and description length (" \o dl
               \o " chars) are proportional.")

\* the top-level directory of every file, in file order
topDirs(files) ==
  [k \in 1..Len(files) |->
     LET parts == split(files[k].filename, "/")
     IN  IF Len(parts) > 1 THEN parts[1] ELSE "."]

unrelatedChangesCheck_CountFiles(files) ==
  LET dirCount == Len(files)
      likelyRelated ==
        \E k \in 1..Len(files) :
          \E marker \in {"test", "spec", "config", "package.json", ".yml",
                          ".yaml", ".toml", "README", "doc", ".md"} :
            includes(files[k].filename, marker)
  IN  IF Len(files) <= 1 \/ dirCount <= 3
      THEN CheckResult("unrelated_changes", 0, "Within normal range.")
      ELSE IF dirCount <= 5 /\ likelyRelated
      THEN CheckResult("unrelated_changes", 10, "tests/config/docs")
      ELSE IF dirCount <= 5
      THEN CheckResult("unrelated_changes", 35, "unrelated changes")
      ELSE IF dirCount <= 8
      THEN CheckResult("unrelated_changes", 60, "Wide scope")
      ELSE CheckResult("unrelated_changes", 85, "Extremely scattered")

unrelatedChangesCheck(files) ==
  LET directories == unique(topDirs(files))
      dirCount == Len(directories)
      dc == ToString(dirCount)
      hasTests ==
        \E k \in 1..Len(files) :
          includes(files[k].filename, "test") \/ includes(files[k].filename, "spec")
      hasConfig ==
        \E k \in 1..Len(files) :
          \/ includes(files[k].filename, "config")
          \/ includes(files[k].filename, "package.json")
          \/ includes(files[k].filename, ".yml")
          \/ includes(files[k].filename, ".yaml")
          \/ includes(files[k].filename, ".toml")
      hasDocs ==
        \E k \in 1..Len(files) :
          \/ includes(files[k].filename, "README")
          \/ includes(files[k].filename, "doc")
          \/ includes(files[k].filename, ".md")
      likelyRelated == hasTests \/ hasConfig \/ hasDocs
  IN  IF Len(files) <= 1
      THEN CheckResult("unrelated_changes", 0,
             "Single file changed. No cross-directory concern.")
      ELSE IF dirCount <= 3
      THEN CheckResult("unrelated_changes", 0,
             "Files span " \o dc \o " director"
               \o (IF dirCount = 1 THEN "y" ELSE "ies") \o ". Within normal range.")
      ELSE IF dirCount <= 5 /\ likelyRelated
      THEN CheckResult("unrelated_changes", 10,
             "Files span " \o dc
               \o " directories, but include tests/config/docs that are typically updated alongside code.")
      ELSE IF dirCount <= 5
      THEN CheckResult("unrelated_changes", 35,
             "Files span " \o dc \o " directories ("
               \o join(slice(directories, 5), ", ")
               \o "). This may indicate unrelated changes bundled together.")
      ELSE IF dirCount <= 8
      THEN CheckResult("unrelated_changes", 60,
             "Wide scope: files touch " \o dc \o " directories ("
               \o join(slice(directories, 6), ", ")
               \o "). AI-generated PRs often make scattered, unrelated changes.")
      ELSE CheckResult("unrelated_changes", 85,
             "Extremely scattered: " \o dc \o " directories affected ("
               \o join(slice(directories, 6), ", ")
               \o ", ...). This pattern is characteristic of AI-generated bulk changes.")

\* str.replace(regex, with) for a regex without the g flag
ReReplaceFirst(re, str, with, fl) ==
  LET m == ReExec(re, str, 1, fl)
  IN  IF ~m.found THEN str
      ELSE (IF m.start > 1 THEN SubSeq(str, 1, m.start - 1) ELSE "")
             \o with \o substring(str, m.end - 1)

isDiffMetadata(line) ==
  \/ startsWith(line, "@@")
  \/ startsWith(line, "diff")
  \/ startsWith(line, "index")
  \/ startsWith(line, "---")
  \/ startsWith(line, "+++")

stripTrailingSeparator(text) ==
  ReReplaceFirst(Cat(<<OneOf(";,"), Spaces0, Eol>>), trim(text), "", NoFlags)

\* a removed line and the added line after it differ in formatting only
isFormattingPair(removed, added) ==
  \/ trim(removed) = trim(added)
  \/ ReReplaceAll(Space, removed, "", NoFlags)
       = ReReplaceAll(Space, added, "", NoFlags)
  \/ ReReplaceAll(Quote, removed, "\"", NoFlags)
       = ReReplaceAll(Quote, added, "\"", NoFlags)
  \/ stripTrailingSeparator(removed) = stripTrailingSeparator(added)

\* the while loop over the lines of one patch: a removed line followed by
\* an added line is taken with it as a pair, and the loop steps over both.
\* The line stepped over starts with "+", so it never starts a pair itself,
\* and a line is stepped over exactly when the line before it starts a pair
walkPatch(lines) ==
  LET n == Len(lines)
      startsPair(i) ==
        /\ ~isDiffMetadata(lines[i])
        /\ startsWith(lines[i], "-")
        /\ i + 1 <= n
        /\ startsWith(lines[i + 1], "+")
      visited(i) == i = 1 \/ ~startsPair(i - 1)
      pairs == SelectSeq(Indices(n), LAMBDA i : startsPair(i))
      formattingPairs ==
        SelectSeq(pairs, LAMBDA i : isFormattingPair(substring(lines[i], 1),
                                                     substring(lines[i + 1], 1)))
      singles ==
        SelectSeq(Indices(n),
                  LAMBDA i : /\ visited(i)
                             /\ ~isDiffMetadata(lines[i])
                             /\ ~startsPair(i)
                             /\ (startsWith(lines[i], "+") \/ startsWith(lines[i], "-")))
      blankSingles ==
        SelectSeq(singles,
                  LAMBDA i : LET content == trim(substring(lines[i], 1))
                             IN  content = "" \/ content = "{" \/ content = "}")
  IN  [formattingOnlyLines |-> 2 * Len(formattingPairs) + Len(blankSingles),
       substantiveLines |->
         2 * (Len(pairs) - Len(formattingPairs))
           + (Len(singles) - Len(blankSingles))]

\* the loop over files; a file without patch text is skipped
walkFiles(files) ==
  LET patched == SelectSeq(files, LAMBDA file : file.patch # "")
      tallies == [k \in 1..Len(patched) |->
                    walkPatch(split(patched[k].patch, "\n"))] \o <<>>
  IN  [formattingOnlyLines |->
         Sum([k \in 1..Len(tallies) |-> tallies[k].formattingOnlyLines]),
       substantiveLines |->
         Sum([k \in 1..Len(tallies) |-> tallies[k].substantiveLines])]

claimsSubstantiveWorkPattern ==
  AnyOf(<<"fix", "feat", "add", "implement", "resolve", "bug", "issue",
          "feature", "enhance", "refactor", "optimize">>)

formattingOnlyCheck_NoMinimum(pr, files) ==
  LET tally == walkFiles(files)
      totalChangedLines == tally.formattingOnlyLines + tally.substantiveLines
      formattingRate ==
        IF totalChangedLines = 0 THEN DNaN
        ELSE DDivInt(DFromInt(tally.formattingOnlyLines), totalChangedLines)
      claimsSubstantiveWork ==
        ReTest(claimsSubstantiveWorkPattern, toLowerCase(pr.title), NoFlags)
  IN  IF formattingRate.nan \/ DLt(formattingRate, DLit(5, 10))
      THEN CheckResult("formatting_only", 0, "PR contains substantive code changes.")
      ELSE IF DLt(formattingRate, DLit(8, 10))
      THEN CheckResult("formatting_only", IF claimsSubstantiveWork THEN 30 ELSE 10,
                       "formatting-only")
      ELSE IF DLt(formattingRate, DLit(95, 100))
      THEN CheckResult("formatting_only", IF claimsSubstantiveWork THEN 65 ELSE 25,
                       "Mostly formatting changes")
      ELSE CheckResult("formatting_only", IF claimsSubstantiveWork THEN 90 ELSE 35,
                       "nearly all formatting")

formattingOnlyCheck(pr, files) ==
  LET tally == walkFiles(files)
      formattingOnlyLines == tally.formattingOnlyLines
      totalChangedLines == tally.formattingOnlyLines + tally.substantiveLines
      formattingRate == DDivInt(DFromInt(formattingOnlyLines), totalChangedLines)
      percent == toFixed0(DMulInt(formattingRate, 100))
      claimsSubstantiveWork ==
        ReTest(claimsSubstantiveWorkPattern, toLowerCase(pr.title), NoFlags)
  IN  IF totalChangedLines < 5
      THEN CheckResult("formatting_only", 0, "Too few changes to assess.")
      ELSE IF DLt(formattingRate, DLit(5, 10))
      THEN CheckResult("formatting_only", 0, "PR contains substantive code changes.")
      ELSE IF DLt(formattingRate, DLit(8, 10))
      THEN IF claimsSubstantiveWork
           THEN CheckResult("formatting_only", 30,
                  percent \o "% of changes are formatting-only, but the title claims substantive work (\""
                    \o pr.title \o "\").")
           ELSE CheckResult("formatting_only", 10,
                  percent \o "% of changes are formatting-only. The title doesn't overclaim.")
      ELSE IF DLt(formattingRate, DLit(95, 100))
      THEN IF claimsSubstantiveWork
           THEN CheckResult("formatting_only", 65,
                  percent \o "% of changes are whitespace/formatting, yet the title (\""
                    \o pr.title \o "\") implies bug fixes or features. This is a common AI slop pattern.")
           ELSE CheckResult("formatting_only", 25,
                  "Mostly formatting changes (" \o percent
                    \o "%). The title accurately represents the scope.")
      ELSE IF claimsSubstantiveWork
      THEN CheckResult("formatting_only", 90,
             "Almost entirely formatting changes (" \o percent \o "%) but claims to \""
               \o pr.title \o "\". This is misleading and a hallmark of AI-generated contributions.")
      ELSE CheckResult("formatting_only", 35,
             "PR is nearly all formatting (" \o percent
               \o "%). While not necessarily slop, formatting-only PRs add noise.")

\* ------------------------------------------------------------------------
\* State
\* ------------------------------------------------------------------------
VARIABLES
  config,      \* the SlopGateConfig in force
  checks,      \* the CheckResult list handed to calculateScore
  result,      \* the ScoringResult, once phase = "scored"
  verdictOut,  \* the last direct getVerdict call: score and verdict
  phase,       \* where the caller is, or how far run() has come
  called,      \* the check functions called so far, one for each of checks,
               \* and after them the requests and log calls of respond
  world,       \* what the caller passes in, or what run() finds on GitHub
               \* and respond leaves there
  outputs      \* the outputs run() has set

vars == <<config, checks, result, verdictOut, phase, called, world, outputs>>

MaxChecks == 3

\* the check of the tests' makeCheck helper
makeCheck(name, score) ==
  [name |-> name, score |-> score, reason |-> "Normal activity."]

\* velocity disabled, as in the test "should skip disabled checks"
DisabledVelocityConfig ==
  [DEFAULT_CONFIG EXCEPT !.weights = [DefaultWeights EXCEPT !.velocity = 0]]

\* the thresholds of the test "should respect custom thresholds"
CustomThresholdsConfig ==
  [DEFAULT_CONFIG EXCEPT !.thresholds = [warn |-> 20, flag |-> 40, block |-> 60]]

\* thresholds the schema accepts although they do not ascend
UnorderedThresholdsConfig ==
  [DEFAULT_CONFIG EXCEPT !.thresholds = [warn |-> 60, flag |-> 30, block |-> 80]]

Configs ==
  {DEFAULT_CONFIG, DisabledVelocityConfig, CustomThresholdsConfig,
   UnorderedThresholdsConfig}

\* name and score of the checks a caller submits
SubmittedChecks ==
  {<<"velocity", 0>>, <<"velocity", 100>>, <<"placeholder", 0>>,
   <<"shotgun", 90>>, <<"hallucinated_import", 25>>,
   <<"hallucinated_import", 90>>, <<"new_account", 70>>,
   <<"unknown_check", 50>>, <<"constructor", 50>>}

NoResult ==
  [finalScore |-> 0, verdict |-> "pass", checks |-> <<>>,
   weightedChecks |-> <<>>, summary |-> ""]

NoVerdict == [score |-> 0, verdict |-> "pass"]

\* a caller of the scoring functions has no GitHub data and sets no outputs
NoWorld == [kind |-> "none"]
NoOutputs == [set |-> FALSE]

Init ==
  /\ config \in Configs
  /\ called = <<>>
  /\ world = NoWorld
  /\ outputs = NoOutputs
  /\ checks = <<>>
  /\ result = NoResult
  /\ verdictOut = NoVerdict
  /\ phase = "collect"

\* a caller builds the check list
SubmitCheck(name, score) ==
  /\ phase = "collect"
  /\ Len(checks) < MaxChecks
  /\ checks' = Append(checks, makeCheck(name, score))
  /\ UNCHANGED <<config, result, verdictOut, phase, called, world, outputs>>

\* the caller keeps what calculateScore returned
Calculated(returned) ==
  /\ phase = "collect"
  /\ result' \in returned
  /\ phase' = "scored"
  /\ UNCHANGED <<config, checks, verdictOut, called, world, outputs>>

\* calculateScore(checks, config)
Calculate == Calculated(calculateScore(checks, config))

\* getVerdict(score, config) called on its own
CallGetVerdict(score) ==
  /\ phase = "collect"
  /\ checks = <<>>
  /\ verdictOut' = [score |-> score, verdict |-> getVerdict(score, config)]
  /\ phase' = "verdict"
  /\ UNCHANGED <<config, checks, result, called, world, outputs>>

Next ==
  \/ \E c \in SubmittedChecks : SubmitCheck(c[1], c[2])
  \/ Calculate
  \/ \E score \in 0..100 : CallGetVerdict(score)

Spec == Init /\ [][Next]_vars

\* the same caller, submitting only names that are no inherited members of
\* an object literal
PlainChecks == {c \in SubmittedChecks : c[1] \notin ObjectPrototypeKeys}

NextPlain ==
  \/ \E c \in PlainChecks : SubmitCheck(c[1], c[2])
  \/ Calculate

SpecPlain == Init /\ [][NextPlain]_vars

\* a caller that submits enough findings to overflow the summary
MaxFindings == 7

FindingChecks ==
  {<<"velocity", 100>>, <<"shotgun", 90>>, <<"new_account", 70>>,
   <<"placeholder", 0>>}

InitSummary ==
  /\ config = DisabledVelocityConfig
  /\ called = <<>>
  /\ world = NoWorld
  /\ outputs = NoOutputs
  /\ checks = <<>>
  /\ result = NoResult
  /\ verdictOut = NoVerdict
  /\ phase = "collect"

SubmitFinding(name, score) ==
  /\ phase = "collect"
  /\ Len(checks) < MaxFindings
  /\ checks' = Append(checks, makeCheck(name, score))
  /\ UNCHANGED <<config, result, verdictOut, phase, called, world, outputs>>

NextSummary ==
  \/ \E c \in FindingChecks : SubmitFinding(c[1], c[2])
  \/ Calculate

SpecSummary == InitSummary /\ [][NextSummary]_vars

\* ------------------------------------------------------------------------
\* A caller of the check functions: one call of one check on one input
\* ------------------------------------------------------------------------
\* the instant Date.now() returns during the calls
Now == DateParse("2024-03-04T12:00:00.250Z")

ContributorPR(number, title, body, created_at) ==
  [number |-> number, title |-> title, body |-> body, created_at |-> created_at]

\* n pull requests numbered from first, all with the same texts and time
PRsAt(first, n, title, body, created_at) ==
  [k \in 1..n |-> ContributorPR(first + k - 1, title, body, created_at)]

PullRequest(number, title, body, additions, deletions, login, type, created_at) ==
  [number |-> number, title |-> title, body |-> body,
   additions |-> additions, deletions |-> deletions,
   user |-> [login |-> login, type |-> type, created_at |-> created_at]]

PRFile(filename, patch) == [filename |-> filename, patch |-> patch]

\* recentPRs arguments: k pull requests of the last hours before j older ones
VelocityInputs ==
  {PRsAt(1, k, "Fix bug", "", "2024-03-04T09:30:00Z")
     \o PRsAt(50, j, "Fix bug", "", "2024-03-03T12:00:00Z")
     : k \in {0, 1, 3, 4, 5, 6, 10, 11, 12}, j \in {0, 2}}
    \cup {<<ContributorPR(1, "Fix bug", "", "2024-03-03T12:00:01Z"),
            ContributorPR(2, "Fix bug", "", "not a date")>>}
    \cup {PRsAt(1, 4, "Fix bug", "", "2024-03-03T12:00:00.250Z"),
          PRsAt(1, 3, "Fix bug", "", "2024-03-04T09:30:00Z")
            \o PRsAt(50, 1, "Fix bug", "", "2024-03-03T12:00:00.249Z"),
          PRsAt(50, 12, "Fix bug", "", "2024-03-02T12:00:00Z")}

\* stats arguments: what getContributorAbandonmentRate returns, and stats
\* whose rate is no number
AbandonmentInputs ==
  {getContributorAbandonmentRate(s) :
     s \in [ok : {TRUE}, total_count : {0, 2, 3, 10}, unmerged : {0, 2, 3}]
             \cup [ok : {TRUE}, total_count : {10, 200}, unmerged : {5, 6, 7, 8, 9, 10}]
             \cup [ok : {FALSE}, total_count : {10}, unmerged : {10}]}
    \cup {[total |-> 5, abandoned |-> 1, rate |-> DNaN]}
    \cup [total : {0, 2, 3, 10}, abandoned : {0, 4},
          rate : {DFromInt(r) : r \in {0, 30, 31, 40, 50, 51, 70, 71, 90, 91, 100}}
                   \cup {DLit(301, 10), DLit(901, 10)}]

ShotgunTitles == <<"Fix typo in README", "fix typo in readme.", "Update dependencies">>
ShotgunBodies == <<"", "This PR fixes a typo in the documentation.",
                   "This PR fixes a typo in the documentation!">>

\* publicPRs arguments for the current pull request 7, which has the first
\* title; the bodies are a body of the current pull request and others
ShotgunInputs ==
  {self \o PRsAt(20, n, ShotgunTitles[t], ShotgunBodies[b], "2024-03-02T08:00:00Z")
        \o last
     : self \in {<<>>, PRsAt(7, 1, ShotgunTitles[1], ShotgunBodies[2],
                             "2024-03-04T09:30:00Z")},
       last \in {<<>>, PRsAt(30, 1, ShotgunTitles[3], "", "2024-03-01T08:00:00Z")},
       n \in 0..3, t \in 1..3, b \in 1..3}

\* account creation times: 3 hours to 400 days before Now, and no date
AccountDates ==
  {"2024-03-04T09:00:00Z", "2024-03-01T12:00:00Z", "2024-02-26T12:00:01Z",
   "2024-02-26T12:00:00Z", "2024-02-19T12:00:01Z", "2024-02-19T12:00:00Z",
   "2024-02-03T13:00:00Z",
   "2024-02-03T12:00:00Z", "2023-01-29T12:00:00Z", ""}

NewAccountInputs ==
  [created_at : AccountDates,
   recentRepoPRs : {<<>>, PRsAt(7, 1, "Fix bug", "", "2024-03-04T09:30:00Z"),
                    PRsAt(5, 3, "Fix bug", "", "2024-03-04T09:30:00Z")}]

\* n added lines of the same text, one below the other
AddedLines(n, text) == join([k \in 1..n |-> "+" \o text], "\n")

\* patches with stubs, imports, comments and format-only changes
StubPatch ==
  "+function a() {}\n+  // TODO\n+  pass\n+throw new Error('not implemented')"
PlaceholderNamesPatch == "+foo = bar\n+baz = Foo\n+real();"
ImportsPatch ==
  "+import x from \"react\"\n+const y = require('left-pad')\n+import os\n+import d from 'lodash/fp'"
BuiltinImportsPatch ==
  "+import a from 'fs'\n+import b from 'path'\n+import c from 'os'\n+import d from 'util'\n+import e from 'http'\n+import f from 'a1'"
DefaultImportPatch == "+import React from 'react'"
RequiresPatch(known) ==
  AddedLines(known, "const fs = require('fs')") \o "\n+const a = require('a1')"
CommentedPatch(comments, code) ==
  AddedLines(comments, "// note") \o "\n" \o AddedLines(code, "run();")
FormatPatch(formatting, substantive) ==
  AddedLines(formatting, "}") \o "\n" \o AddedLines(substantive, "run();")
PairsPatch == "@@ -1 +1 @@\n-foo(a,b)\n+foo(a, b)\n-x = 'a'\n+x = \"a\"\n-y = 1;\n+y = 1\n-z\n+w"

\* an added block of n lines, long enough to count as code when n >= 4
Block(n) == AddedLines(n, "total += price;")

Patches ==
  {"", StubPatch, PlaceholderNamesPatch, ImportsPatch, BuiltinImportsPatch,
   DefaultImportPatch,
   RequiresPatch(3), RequiresPatch(5), PairsPatch, "+{}\n" \o AddedLines(14, "x;"), "+{}\n" \o AddedLines(30, "x;"),
   "+{}\n" \o AddedLines(60, "x;"),
   Block(5) \o "\n ctx\n" \o Block(5),
   Block(10) \o "\n ctx\n" \o Block(10) \o "\n-old\n" \o Block(10),
   Block(4) \o "\n@@\n" \o Block(4) \o "\n@@\n" \o Block(4) \o "\n@@\n" \o Block(4),
   Block(10) \o "\n ctx\n" \o Block(6),
   Block(15) \o "\n ctx\n" \o Block(15),
   Block(7) \o "\n ctx\n" \o Block(7) \o "\n" \o AddedLines(3, "// note"),
   AddedLines(4, "x;") \o "\n ctx\n" \o AddedLines(4, "x;")}
    \cup {CommentedPatch(c, 10 - c) : c \in {0, 3, 4, 6, 7, 8}}
    \cup {FormatPatch(f, 10 - f) : f \in {4, 5, 7, 8, 10}}
    \cup {FormatPatch(4, 0), FormatPatch(18, 2), FormatPatch(19, 1)}

\* files arguments: one file, or the file after a file that came without patch
FileInputs ==
  {<<PRFile("src/a.ts", p)>> : p \in Patches}
    \cup {<<PRFile("img/logo.png", ""), PRFile("src/a.ts", p)>> :
            p \in {StubPatch, ImportsPatch, FormatPatch(8, 2),
                   CommentedPatch(6, 4), Block(5) \o "\n ctx\n" \o Block(5)}}
    \cup {<<>>, <<PRFile("img/logo.png", "")>>,
          <<PRFile("img/logo.png", ""), PRFile("img/icon.png", "")>>,
          <<PRFile("src/a.ts", Block(5)), PRFile("img/logo.png", ""),
            PRFile("lib/b.ts", Block(5))>>}
    \cup {<<PRFile("src/a.ts", Block(5)), PRFile("lib/b.ts", Block(5))>>,
          <<PRFile("src/a.ts", AddedLines(2, "x();")),
            PRFile("lib/b.ts", AddedLines(2, "x();"))>>,
          <<PRFile("src/a.ts", "+first();\n+first();\n+\n+second();\n+second();")>>,
          <<PRFile("src/loop.c", "@@ -1,3 +1,3 @@\n for (;;) {\n-i++;\n+++i;\n }")>>}

DepsInputs == {{}, {"react", "lodash", "left-pad"}}

Titles ==
  {"Fix bug", "Update", "Tidy up", "Reformat sources", "Padding tweaks",
   "  Fixed some issues ", "Cleanup",
   "Add retry with backoff to the uploader"}
Bodies ==
  {"", "This PR fixes it.", "This PR fixes the thing that broke.",
   "Made the following changes to code",
   "Retries failed uploads three times and waits longer before each attempt, as discussed in the issue."}

\* pr arguments of genericDescriptionCheck and formattingOnlyCheck
DescribedPRs ==
  {PullRequest(7, t, b, 30, 20, "alice", "User", "2023-01-29T12:00:00Z") :
     t \in Titles, b \in Bodies}

\* a body of n characters between white space
Description(n) == "  " \o join([k \in 1..n |-> "x"], "") \o "\n"

\* pr arguments of oversizedDiffCheck: sizes on and next to every limit, with
\* bodies on and next to every length the check compares with
SizedPRs ==
  {PullRequest(7, "Add retry with backoff to the uploader", b, additions,
               deletions, "alice", "User", "2023-01-29T12:00:00Z") :
     additions \in {100, 300, 500, 510, 600, 1000, 1500, 2000, 2500},
     deletions \in {0, 1},
     b \in {"", "Retries failed uploads thrice.",
            "Retries failed uploads three times and waits longer before each attempt, as discussed in the issue."}
           \cup {Description(n) :
                   n \in {29, 30, 49, 50, 51, 59, 60, 100, 149, 150, 199, 200}}}

\* files arguments of unrelatedChangesCheck: files in n top-level directories
DirFiles(n, last) ==
  [k \in 1..n |-> PRFile("d" \o ToString(k) \o "/" \o (IF k = n THEN last ELSE "a.ts"), "")]

DirInputs ==
  {<<>>, <<PRFile("a.ts", ""), PRFile("b.ts", "")>>}
    \cup {DirFiles(n, last) \o more :
            n \in 0..9,
            last \in {"a.ts", "a.test.ts", "settings.yml", "README", "Config.ts"},
            more \in {<<>>, <<PRFile("b.ts", "")>>, <<PRFile("d1/sub/b.ts", "")>>}}

InitChecks ==
  /\ config = DEFAULT_CONFIG
  /\ checks = <<>>
  /\ result = NoResult
  /\ verdictOut = NoVerdict
  /\ phase = "idle"
  /\ called = <<>>
  /\ world = NoWorld
  /\ outputs = NoOutputs

\* the caller keeps the arguments in world and the returned value in checks
Returned(function, arguments, value) ==
  /\ phase = "idle"
  /\ phase' = "called"
  /\ called' = <<function>>
  /\ world' = [kind |-> "call", arguments |-> arguments]
  /\ checks' = <<value>>
  /\ UNCHANGED <<config, result, verdictOut, outputs>>

CallVelocityCheck ==
  \E recentPRs \in VelocityInputs :
    Returned("velocityCheck", <<recentPRs>>, velocityCheck(recentPRs, Now))

CallAbandonmentCheck ==
  \E stats \in AbandonmentInputs :
    Returned("abandonmentCheck", <<stats>>, abandonmentCheck(stats))

CallShotgunCheck ==
  \E publicPRs \in ShotgunInputs, b \in 1..2 :
    LET pr == PullRequest(7, ShotgunTitles[1], ShotgunBodies[b], 30, 20,
                          "alice", "User", "2023-01-29T12:00:00Z")
    IN  Returned("shotgunCheck", <<pr, publicPRs>>, shotgunCheck(pr, publicPRs))

CallNewAccountCheck ==
  \E input \in NewAccountInputs :
    LET pr == PullRequest(7, "Fix bug", "", 30, 20, "alice", "User", input.created_at)
    IN  Returned("newAccountCheck", <<pr, input.recentRepoPRs>>,
                 newAccountCheck(pr, input.recentRepoPRs, Now))

CallPlaceholderCheck ==
  \E files \in FileInputs :
    Returned("placeholderCheck", <<files>>, placeholderCheck(files))

CallHallucinatedImportCheck ==
  \E files \in FileInputs, projectDeps \in DepsInputs :
    Returned("hallucinatedImportCheck", <<files, projectDeps>>,
             hallucinatedImportCheck(files, projectDeps))

CallDocstringInflationCheck ==
  \E files \in FileInputs :
    Returned("docstringInflationCheck", <<files>>, docstringInflationCheck(files))

CallCopyPasteCheck ==
  \E files \in FileInputs :
    Returned("copyPasteCheck", <<files>>, copyPasteCheck(files))

CallGenericDescriptionCheck ==
  \E pr \in DescribedPRs :
    Returned("genericDescriptionCheck", <<pr>>, genericDescriptionCheck(pr))

CallOversizedDiffCheck ==
  \E pr \in SizedPRs :
    Returned("oversizedDiffCheck", <<pr>>, oversizedDiffCheck(pr))

CallUnrelatedChangesCheck ==
  \E files \in DirInputs :
    Returned("unrelatedChangesCheck", <<files>>, unrelatedChangesCheck(files))

CallFormattingOnlyCheck ==
  \E pr \in {d \in DescribedPRs : d.body = ""}, files \in FileInputs :
    Returned("formattingOnlyCheck", <<pr, files>>, formattingOnlyCheck(pr, files))

NextChecks ==
  \/ CallVelocityCheck
  \/ CallAbandonmentCheck
  \/ CallShotgunCheck
  \/ CallNewAccountCheck
  \/ CallPlaceholderCheck
  \/ CallHallucinatedImportCheck
  \/ CallDocstringInflationCheck
  \/ CallCopyPasteCheck
  \/ CallGenericDescriptionCheck
  \/ CallOversizedDiffCheck
  \/ CallUnrelatedChangesCheck
  \/ CallFormattingOnlyCheck

SpecChecks == InitChecks /\ [][NextChecks]_vars

\* ------------------------------------------------------------------------
\* levenshteinSimilarity called on its own: the caller keeps the two texts
\* in world and the returned number in result
\* ------------------------------------------------------------------------
\* a word of WordLength equal characters, and texts of such words
WordLength == 50
Word(char) == join([k \in 1..WordLength |-> char], "")
WordsText(chars) == join([k \in 1..Len(chars) |-> Word(CharAt(chars, k))], " ")

\* short texts, a text of exactly 500 characters, and texts of more than
\* 500 characters with equal, overlapping and disjoint words
SimilarityTexts ==
  {"", "a", "ab", "ba", "hello", "hellp", "hello world", "goodbye universe",
   "fix typo in readme", "fix typo in readm",
   join([k \in 1..500 |-> "x"], ""),
   WordsText("aaaaaaaaaaa"), WordsText("aaaaaabbbbb"), WordsText("bbbbbbaaaaa"),
   WordsText("abcdefghijk"), WordsText("ccccccddddd")}

\* the caller keeps the arguments in world and the returned number in result
Measured(function, arguments, value) ==
  /\ phase = "idle"
  /\ phase' = "called"
  /\ called' = <<function>>
  /\ world' = [kind |-> "call", arguments |-> arguments]
  /\ result' = value
  /\ UNCHANGED <<config, checks, verdictOut, outputs>>

CallLevenshteinSimilarity ==
  \E a \in SimilarityTexts, b \in SimilarityTexts :
    Measured("levenshteinSimilarity", <<a, b>>, levenshteinSimilarity(a, b))

SpecSimilarity == InitChecks /\ [][CallLevenshteinSimilarity]_vars

\* ------------------------------------------------------------------------
\* run() (src/src/utils/logger.ts): the entry point, in the steps between its
\* log groups. world is what the GitHub API answers during the run.
\* ------------------------------------------------------------------------
\* a search answers with its items, or fails
Search(ok, items) == [ok |-> ok, items |-> items]

\* the client returns no pull requests when the search fails
getContributorRecentPRs_Empty(search) == <<>>

getContributorRecentPRs(search) == IF search.ok THEN search.items ELSE <<>>
getContributorPublicPRs(search) == IF search.ok THEN search.items ELSE <<>>

RunWorld(scenario, layout, pr, prFiles, recent, abandonment, public, now) ==
  [kind |-> "run", scenario |-> scenario, layout |-> layout,
   configContent |-> "", pr |-> pr, prFiles |-> prFiles,
   recentSearch |-> recent, abandonmentSearch |-> abandonment,
   publicSearch |-> public, projectDeps |-> {"react"}, now |-> now,
   labels |-> {}, comments |-> <<>>, reviews |-> <<>>, state |-> "open"]

\* the sloppy pull request 112: "Fix bug", no body, 1500 + 600 lines, opened
\* by an account created three days before Now
SloppyPR ==
  PullRequest(112, "Fix bug", "", 1500, 600, "mallory", "User",
              "2024-03-01T12:00:00Z")

\* its files, in nine top-level directories, with three identical added
\* blocks of ten lines: each block in a file of its own, all three in one
\* run of added lines, blocks of short lines, or files without patch text
SloppyLayouts == {"separate", "adjacent", "short", "nopatch"}

SloppyFiles(layout) ==
  [k \in 1..9 |->
     PRFile("d" \o ToString(k) \o "/a.ts",
            CASE layout = "separate" -> IF k <= 3 THEN Block(10) ELSE "+run();"
              [] layout = "adjacent" -> IF k = 1 THEN Block(30) ELSE "+run();"
              [] layout = "short" -> IF k <= 3 THEN AddedLines(10, "x;") ELSE "+run();"
              [] OTHER -> "")]

\* the author's twelve pull requests of the last 24 hours in this repository,
\* the current one among them
SloppyRecentPRs == PRsAt(101, 12, "Fix bug", "", "2024-03-04T09:30:00Z")

\* the rest of the author's history: none, or ten abandoned pull requests
\* here and three pull requests of the same title elsewhere
QuietAbandonment == [ok |-> TRUE, total_count |-> 0, unmerged |-> 0]
NoisyAbandonment == [ok |-> TRUE, total_count |-> 10, unmerged |-> 10]
NoisyPublicPRs == PRsAt(1, 3, "Fix bug", "", "2024-03-02T08:00:00Z")

SloppyWorlds ==
  {RunWorld("sloppy", layout, SloppyPR, SloppyFiles(layout),
            Search(recentOk, SloppyRecentPRs),
            IF noisy THEN NoisyAbandonment ELSE QuietAbandonment,
            Search(TRUE, IF noisy THEN NoisyPublicPRs ELSE <<>>), Now) :
     layout \in SloppyLayouts, recentOk \in BOOLEAN, noisy \in BOOLEAN}

\* the clean pull request of an author who has been here for a year
CleanPR ==
  PullRequest(7, "Add retry with backoff to the uploader",
              "Retries failed uploads three times and waits longer before each attempt, as discussed in the issue.",
              30, 20, "alice", "User", "2023-01-29T12:00:00Z")

CleanWorlds ==
  {RunWorld("clean", "none", CleanPR,
            <<PRFile("src/uploader.ts", AddedLines(3, "await retry(upload);"))>>,
            Search(recentOk, PRsAt(7, 1, CleanPR.title, "", "2024-03-04T09:30:00Z")),
            [ok |-> TRUE, total_count |-> 4, unmerged |-> 1],
            Search(TRUE, <<>>), Now) : recentOk \in BOOLEAN}

\* pull requests of accounts the default allowlist names, and of a user who
\* took a bot's name
BotWorlds ==
  {RunWorld("bot", "none",
            PullRequest(9, "Bump lodash", "", 1, 1, login, type,
                        "2020-01-01T00:00:00Z"),
            <<PRFile("package.json", "-a\n+b")>>, Search(TRUE, <<>>),
            QuietAbandonment, Search(TRUE, <<>>), Now) :
     login \in {"dependabot[bot]", "renovate[bot]"}, type \in {"Bot", "User"}}

\* the same pull requests in repositories with a .slopgate.yml, run again
\* after an earlier run blocked them
ConfiguredWorlds ==
  {[w EXCEPT !.configContent = text,
             !.labels = {"slopgate: blocked", "bug"}] :
     w \in {s \in SloppyWorlds :
              s.layout = "separate" /\ s.recentSearch.ok
              /\ s.abandonmentSearch.total_count = 10}
           \cup {c \in CleanWorlds : c.recentSearch.ok} \cup BotWorlds,
     text \in ConfigTexts}

RunWorlds ==
  SloppyWorlds \cup CleanWorlds \cup BotWorlds \cup ConfiguredWorlds

InitRun ==
  /\ config = DEFAULT_CONFIG
  /\ checks = <<>>
  /\ result = NoResult
  /\ verdictOut = NoVerdict
  /\ phase = "start"
  /\ called = <<>>
  /\ world \in RunWorlds
  /\ outputs = NoOutputs

\* the configuration, the pull request and its files are fetched; an
\* allowlisted author ends the run with the outputs of a pass
RunLoad ==
  /\ phase = "start"
  /\ LET cfg == loadConfig(world.configContent)
         isBot == world.pr.user.type = "Bot"
     IN  /\ config' = cfg
         /\ IF isAllowlisted(cfg, world.pr.user.login, isBot)
            THEN /\ outputs' = [set |-> TRUE, score |-> 0, verdict |-> "pass",
                                allowlisted |-> TRUE, summary |-> ""]
                 /\ phase' = "allowlisted"
            ELSE /\ outputs' = outputs
                 /\ phase' = "behavioral"
  /\ UNCHANGED <<checks, result, verdictOut, called, world>>

\* checks.push of what each function of one group returned, in call order;
\* the functions read only what was fetched at the start, which is w
Pushed(w, group, next, functions, returned) ==
  /\ world = w
  /\ phase = group
  /\ checks' = checks \o returned
  /\ called' = called \o functions
  /\ phase' = next
  /\ UNCHANGED <<config, result, verdictOut, world, outputs>>

\* the one list recentRepoPRs goes to velocityCheck and to newAccountCheck
behavioralChecks(w) ==
  LET recentRepoPRs == getContributorRecentPRs(w.recentSearch)
      abandonmentStats == getContributorAbandonmentRate(w.abandonmentSearch)
      publicPRs == getContributorPublicPRs(w.publicSearch)
  IN  <<velocityCheck(recentRepoPRs, w.now),
        abandonmentCheck(abandonmentStats),
        shotgunCheck(w.pr, publicPRs),
        newAccountCheck(w.pr, recentRepoPRs, w.now)>>

RunBehavioralChecks ==
  \E w \in RunWorlds :
    Pushed(w, "behavioral", "content",
           <<"velocityCheck", "abandonmentCheck", "shotgunCheck",
             "newAccountCheck">>,
           behavioralChecks(w))

contentChecks(w) ==
  <<placeholderCheck(w.prFiles),
    hallucinatedImportCheck(w.prFiles, w.projectDeps),
    docstringInflationCheck(w.prFiles),
    copyPasteCheck(w.prFiles)>>

RunContentChecks ==
  \E w \in RunWorlds :
    Pushed(w, "content", "pattern",
           <<"placeholderCheck", "hallucinatedImportCheck",
             "docstringInflationCheck", "copyPasteCheck">>,
           contentChecks(w))

patternChecks(w) ==
  <<genericDescriptionCheck(w.pr), oversizedDiffCheck(w.pr),
    unrelatedChangesCheck(w.prFiles),
    formattingOnlyCheck(w.pr, w.prFiles)>>

RunPatternChecks ==
  \E w \in RunWorlds :
    Pushed(w, "pattern", "score",
           <<"genericDescriptionCheck", "oversizedDiffCheck",
             "unrelatedChangesCheck", "formattingOnlyCheck">>,
           patternChecks(w))

\* the outputs set from what calculateScore returned
SetOutputs(returned) ==
  /\ phase = "score"
  /\ result' \in returned
  /\ outputs' = [set |-> TRUE, score |-> result'.finalScore,
                 verdict |-> result'.verdict, allowlisted |-> FALSE,
                 summary |-> result'.summary]
  /\ phase' = "scored"
  /\ UNCHANGED <<config, checks, verdictOut, called, world>>

RunScore == SetOutputs(calculateScore(checks, config))

\* ------------------------------------------------------------------------
\* respond() (src/src/respond.ts) and the end of run(): one step for each
\* request to GitHub. called is the log of calls made, world the pull request
\* as GitHub holds it.
\* ------------------------------------------------------------------------
LABELS ==
  [pass |-> [name |-> "slopgate: clean", color |-> "0e8a16"],
   warn |-> [name |-> "slopgate: review", color |-> "fbca04"],
   flag |-> [name |-> "slopgate: flagged", color |-> "e11d48"],
   block |-> [name |-> "slopgate: blocked", color |-> "b60205"]]

ALL_LABEL_NAMES ==
  <<LABELS.pass.name, LABELS.warn.name, LABELS.flag.name, LABELS.block.name>>

Calls(name) == Cardinality({k \in 1..Len(called) : called[k] = name})

\* the log group is left open when a request fails
Thrown_GroupLeftOpen(call) ==
  /\ called' = called \o <<call, "setFailed">>
  /\ phase' = "failed"
  /\ UNCHANGED <<config, checks, result, verdictOut, world, outputs>>

\* a request failed: respond's finally ends the log group and run's catch
\* marks the action as failed
Thrown(call) ==
  /\ called' = called \o <<call, "endGroup", "setFailed">>
  /\ phase' = "failed"
  /\ UNCHANGED <<config, checks, result, verdictOut, world, outputs>>

\* a request succeeded and left the pull request as pr
Answered(call, pr, next) ==
  /\ called' = called \o <<call>>
  /\ world' = pr
  /\ phase' = next
  /\ UNCHANGED <<config, checks, result, verdictOut, outputs>>

RespondStart ==
  /\ phase = "scored"
  /\ called' = called \o <<"startGroup">>
  /\ phase' = "removeLabel"
  /\ UNCHANGED <<config, checks, result, verdictOut, world, outputs>>

\* client.removeLabel of the next of ALL_LABEL_NAMES: the request removes a
\* label the pull request carries, or fails; every failure is swallowed
removeLabel(pr, name, ok) ==
  IF ok /\ name \in pr.labels
  THEN [pr EXCEPT !.labels = pr.labels \ {name}]
  ELSE pr

RespondRemoveLabel ==
  /\ phase = "removeLabel"
  /\ LET k == Calls("removeLabel") + 1
     IN  \E ok \in BOOLEAN :
           Answered("removeLabel", removeLabel(world, ALL_LABEL_NAMES[k], ok),
                    IF k = Len(ALL_LABEL_NAMES) THEN "addLabel"
                    ELSE "removeLabel")

\* client.addLabel: a missing label definition is created, and a failure of
\* that is only a warning; the request that puts the label on the pull
\* request succeeds or throws
addLabel(pr, name) == [pr EXCEPT !.labels = pr.labels \cup {name}]

RespondAddLabel ==
  /\ phase = "addLabel"
  /\ \/ Answered("addLabel", addLabel(world, LABELS[result.verdict].name),
                 "switch")
     \/ Thrown("addLabel")

createComment(pr, body) == [pr EXCEPT !.comments = pr.comments \o <<body>>]

requestChanges(pr, body) == [pr EXCEPT !.reviews = pr.reviews \o <<body>>]

closePullRequest(pr) == [pr EXCEPT !.state = "closed"]

\* case 'pass': nothing beyond the label
RespondPass ==
  /\ phase = "switch"
  /\ result.verdict = "pass"
  /\ phase' = "end"
  /\ UNCHANGED <<config, checks, result, verdictOut, called, world, outputs>>

postWarningComment ==
  /\ phase = "switch"
  /\ result.verdict = "warn"
  /\ \/ Answered("createComment", createComment(world, "SlopGate Review"),
                 "end")
     \/ Thrown("createComment")

postFlagComment ==
  /\ phase = "switch"
  /\ result.verdict = "flag"
  /\ \/ Answered("requestChanges",
                 requestChanges(world, "SlopGate: PR Flagged"), "end")
     \/ Thrown("requestChanges")

\* the pull request is closed whatever auto_close says
postBlockComment_AlwaysClose ==
  /\ phase = "switch"
  /\ result.verdict = "block"
  /\ \/ Answered("createComment", createComment(world, "SlopGate: PR Blocked"),
                 "close")
     \/ Thrown("createComment")

\* the comment of a block, and the close that follows it under auto_close
postBlockComment ==
  /\ phase = "switch"
  /\ result.verdict = "block"
  /\ \/ Answered("createComment", createComment(world, "SlopGate: PR Blocked"),
                 IF config.auto_close THEN "close" ELSE "end")
     \/ Thrown("createComment")

postBlockClose ==
  /\ phase = "close"
  /\ \/ Answered("closePullRequest", closePullRequest(world), "end")
     \/ Thrown("closePullRequest")

\* respond returns: the log group ends, and run() sets the exit status
RespondEnd ==
  /\ phase = "end"
  /\ called' = called \o <<"endGroup">> \o
               (IF result.verdict = "block" /\ config.auto_close
                THEN <<"setFailed">>
                ELSE IF result.verdict = "flag" THEN <<"warning">> ELSE <<>>)
  /\ phase' = "done"
  /\ UNCHANGED <<config, checks, result, verdictOut, world, outputs>>

NextRespond ==
  \/ RespondStart
  \/ RespondRemoveLabel
  \/ RespondAddLabel
  \/ RespondPass
  \/ postWarningComment
  \/ postFlagComment
  \/ postBlockComment
  \/ postBlockClose
  \/ RespondEnd

\* a .slopgate.yml that sets auto_close: true
AutoCloseConfig == [DEFAULT_CONFIG EXCEPT !.auto_close = TRUE]

\* a scoring result of each verdict: one velocity check of that score
RespondResults ==
  UNION {calculateScore(<<makeCheck("velocity", score)>>, DEFAULT_CONFIG) :
           score \in {0, 40, 70, 90}}

\* the open pull request before the response, with the labels it carries
RespondWorlds ==
  {[kind |-> "respond", labels |-> labels, comments |-> <<>>,
    reviews |-> <<>>, state |-> "open"] :
     labels \in {{}, {"bug"}, {LABELS.block.name}, {LABELS.pass.name, "bug"},
                 {LABELS.warn.name, LABELS.flag.name},
                 {LABELS.pass.name, LABELS.warn.name, LABELS.flag.name,
                  LABELS.block.name}}}

InitRespond ==
  /\ config \in {DEFAULT_CONFIG, AutoCloseConfig}
  /\ result \in RespondResults
  /\ checks = result.checks
  /\ verdictOut = NoVerdict
  /\ phase = "scored"
  /\ called = <<>>
  /\ world \in RespondWorlds
  /\ outputs = [set |-> TRUE, score |-> result.finalScore,
                verdict |-> result.verdict, allowlisted |-> FALSE,
                summary |-> result.summary]

SpecRespond == InitRespond /\ [][NextRespond]_vars

NextRun ==
  \/ RunLoad
  \/ RunBehavioralChecks
  \/ RunContentChecks
  \/ RunPatternChecks
  \/ RunScore
  \/ NextRespond

SpecRun == InitRun /\ [][NextRun]_vars

\* ------------------------------------------------------------------------
\* Properties
\* ------------------------------------------------------------------------
Scored == phase = "scored"

\* the weight the specification gives a check name
SpecifiedWeight(name, cfg) ==
  IF name \in CheckIds THEN cfg.weights[name] ELSE 50

RECURSIVE SumOver(_, _)
SumOver(f, S) ==
  IF S = {} THEN 0
  ELSE LET x == CHOOSE y \in S : TRUE IN f[x] + SumOver(f, S \ {x})

\* round(n / d) with halves rounded up, in exact integer arithmetic
RoundDiv(n, d) == (2 * n + d) \div (2 * d)

\* C1: for check scores in 0..100 and weights in 0..100 the finalScore that
\* calculateScore returns is an integer in 0..100.
C1_FinalScoreInRange ==
  Scored => result.finalScore \in 0..100

C1_Witness ==
  /\ Scored
  /\ Len(result.weightedChecks) >= 2
  /\ result.finalScore \in 1..99

\* C2: finalScore is round(sum(score * weight) / sum(weight)) over the
\* checks with non-zero weight, and 0 when the total weight is 0.
C2_WeightNormalizedMean ==
  Scored =>
    LET wc == result.weightedChecks
        n  == SumOver([i \in 1..Len(wc) |-> wc[i].score * wc[i].weight.value],
                      1..Len(wc))
        d  == SumOver([i \in 1..Len(wc) |-> wc[i].weight.value], 1..Len(wc))
    IN  result.finalScore = IF d > 0 THEN RoundDiv(n, d) ELSE 0

\* the submitted checks that are not disabled
Enabled(cs, cfg) ==
  SelectSeq(cs, LAMBDA c : SpecifiedWeight(c.name, cfg) # 0)

\* C3: a check of weight 0 is left out of weightedChecks and of both totals:
\* weightedChecks has one entry per submitted check of non-zero weight, and
\* finalScore is the finalScore of the list without the weight-0 checks.
C3_DisabledChecksExcluded ==
  Scored =>
    /\ Len(result.weightedChecks) = Len(Enabled(checks, config))
    /\ \A r \in calculateScore(Enabled(checks, config), config) :
         r.finalScore = result.finalScore

C3_Witness ==
  /\ Scored
  /\ \E i \in 1..Len(checks) :
       SpecifiedWeight(checks[i].name, config) = 0 /\ checks[i].score > 0
  /\ Len(result.weightedChecks) >= 1
  /\ result.finalScore > 0

Ascending(t) == t.warn <= t.flag /\ t.flag <= t.block

\* the band of a score: the highest threshold the score meets
BandOf(score, t) ==
  CHOOSE v \in {"pass", "warn", "flag", "block"} :
    /\ v = "block" <=> score >= t.block
    /\ v = "flag"  <=> (score >= t.flag /\ score < t.block)
    /\ v = "warn"  <=> (score >= t.warn /\ score < t.flag)
    /\ v = "pass"  <=> score < t.warn

\* C4: for thresholds warn <= flag <= block getVerdict returns the highest
\* band whose threshold the score meets, lower boundaries inclusive; with the
\* defaults 29 is pass, 30 is warn, 60 is flag and 80 is block.
C4_VerdictBands ==
  /\ (phase = "verdict" /\ Ascending(config.thresholds)) =>
       /\ verdictOut.verdict = BandOf(verdictOut.score, config.thresholds)
       /\ config.thresholds = DefaultThresholds =>
            /\ verdictOut.score = 29 => verdictOut.verdict = "pass"
            /\ verdictOut.score = 30 => verdictOut.verdict = "warn"
            /\ verdictOut.score = 60 => verdictOut.verdict = "flag"
            /\ verdictOut.score = 80 => verdictOut.verdict = "block"
  /\ (Scored /\ Ascending(config.thresholds)) =>
       result.verdict = BandOf(result.finalScore, config.thresholds)

C4_Witness ==
  /\ phase = "verdict"
  /\ config.thresholds = DefaultThresholds
  /\ verdictOut.score = 60
  /\ verdictOut.verdict = "flag"

\* C6: when every submitted check has score 0 (the empty list included),
\* calculateScore with the default thresholds returns finalScore 0, verdict
\* pass and the fixed clean-pass summary.
C6_AllZeroIsCleanPass ==
  (/\ Scored
   /\ config.thresholds = DefaultThresholds
   /\ \A i \in 1..Len(checks) : checks[i].score = 0) =>
    /\ result.finalScore = 0
    /\ result.verdict = "pass"
    /\ result.summary = "All checks passed. No signs of AI-generated slop detected."

C6_Witness ==
  /\ Scored
  /\ config.thresholds = DefaultThresholds
  /\ Len(checks) >= 2
  /\ Len(result.weightedChecks) >= 2
  /\ \A i \in 1..Len(checks) : checks[i].score = 0

\* the position a submitted check takes among the enabled checks when they
\* are ordered by score * weight, highest first, ties in input order
RankOf(cs, cfg, i) ==
  Cardinality({j \in 1..Len(cs) :
    LET wi == cs[i].score * SpecifiedWeight(cs[i].name, cfg)
        wj == cs[j].score * SpecifiedWeight(cs[j].name, cfg)
    IN  wj > wi \/ (wj = wi /\ j < i)}) + 1

\* C8: weightedChecks is ordered by weightedScore, highest first, and
\* entries of equal weightedScore keep their input order.
C8_SortedStable ==
  Scored =>
    LET cs == Enabled(checks, config)
    IN  /\ Len(result.weightedChecks) = Len(cs)
        /\ \A i \in 1..Len(cs) :
             LET out == result.weightedChecks[RankOf(cs, config, i)]
             IN  out.name = cs[i].name /\ out.score = cs[i].score

\* C9: calculateScore accepts every check list; a name outside the twelve
\* identifiers is included with weight 50 and a known name with the weight
\* configured for it.
C9_UnknownNameDefaultWeight ==
  Scored =>
    /\ \A i \in 1..Len(checks) :
         checks[i].name \notin CheckIds =>
           \E k \in 1..Len(result.weightedChecks) :
             /\ result.weightedChecks[k].name = checks[i].name
             /\ result.weightedChecks[k].weight = NumberWeight(50)
    /\ \A k \in 1..Len(result.weightedChecks) :
         result.weightedChecks[k].name \in CheckIds =>
           result.weightedChecks[k].weight =
             NumberWeight(config.weights[result.weightedChecks[k].name])

\* the entries of weightedChecks a summary lists: the first five of score > 0
Findings(wc) ==
  LET positive == {i \in 1..Len(wc) : wc[i].score > 0}
      listed   == {i \in positive : Cardinality({j \in positive : j < i}) < 5}
  IN  [positive |-> positive, listed |-> listed]

RECURSIVE BulletsOf(_, _, _)
BulletsOf(wc, listed, i) ==
  IF i > Len(wc) THEN ""
  ELSE IF i \notin listed THEN BulletsOf(wc, listed, i + 1)
  ELSE IF \E j \in listed : j > i
  THEN IssueLine(wc[i]) \o "\n" \o BulletsOf(wc, listed, i + 1)
  ELSE IssueLine(wc[i])

FindingsSummary(r) ==
  "**Score: " \o ToString(r.finalScore) \o "/100** (" \o toUpperCase[r.verdict]
    \o ")\n\n" \o verdictText[r.verdict] \o "\n\n### Findings\n\n"
    \o BulletsOf(r.weightedChecks, Findings(r.weightedChecks).listed, 1)

CheckFunctionIds ==
  [velocityCheck |-> "velocity", abandonmentCheck |-> "abandonment",
   shotgunCheck |-> "shotgun", newAccountCheck |-> "new_account",
   placeholderCheck |-> "placeholder",
   hallucinatedImportCheck |-> "hallucinated_import",
   docstringInflationCheck |-> "docstring_inflation",
   copyPasteCheck |-> "copy_paste",
   genericDescriptionCheck |-> "generic_description",
   oversizedDiffCheck |-> "oversized_diff",
   unrelatedChangesCheck |-> "unrelated_changes",
   formattingOnlyCheck |-> "formatting_only"]

\* C10: every check function returns a CheckResult whose name is its own
\* check identifier, whose score is an integer from 0 to 100 and whose
\* reason is a non-empty text.
C10_CheckResultsWellFormed ==
  /\ Len(called) \in {0, Len(checks)}
  /\ \A i \in 1..Len(called) :
       /\ checks[i].name = CheckFunctionIds[called[i]]
       /\ checks[i].score \in 0..100
       /\ checks[i].reason # ""

\* a check has returned a finding, and another call returned none
C10_Witness ==
  /\ phase = "called"
  /\ called = <<"hallucinatedImportCheck">>
  /\ checks[1].score = 55
  /\ Len(checks[1].reason) > 0

\* the score run() got from the check of this name
ScoreOf(name) ==
  LET hits == SelectSeq(checks, LAMBDA c : c.name = name)
  IN  IF hits = <<>> THEN -1 ELSE hits[1].score

\* the pull request of the sloppy scenario as run() sees it: the title, the
\* empty body, the size, nine top-level directories, an account three days
\* old, and a history search that returned twelve pull requests, all of the
\* last 24 hours
SloppyScenario ==
  /\ world.kind = "run"
  /\ config.weights = DefaultWeights /\ config.thresholds = DefaultThresholds
  /\ world.pr.title = "Fix bug" /\ world.pr.body = ""
  /\ world.pr.additions = 1500 /\ world.pr.deletions = 600
  /\ Len(unique(topDirs(world.prFiles))) = 9
  /\ WholeDaysBetween(world.now, DateParse(world.pr.user.created_at)).n = 3
  /\ world.recentSearch.ok
  /\ Len(world.recentSearch.items) = 12
  /\ \A k \in 1..12 :
       TimeGe(DateParse(world.recentSearch.items[k].created_at),
              TimeMinusDays(world.now, 1))

\* three of the added blocks have ten lines, each is a run of added lines
\* of its own, and their normalized texts are equal and longer than 50
\* characters
ThreeSeparateBlocks ==
  LET tens == SelectSeq(codeBlocksOf(world.prFiles),
                        LAMBDA b : b.lineCount = 10)
  IN  /\ Len(tens) >= 3
      /\ normalizeCode(tens[1].block) = normalizeCode(tens[2].block)
      /\ normalizeCode(tens[2].block) = normalizeCode(tens[3].block)
      /\ Len(normalizeCode(tens[1].block)) > 50

\* the checks the scenario says nothing about
OpenChecks ==
  {"abandonment", "shotgun", "placeholder", "hallucinated_import",
   "docstring_inflation", "formatting_only"}

Elapsed(t, now) ==
  [days |-> (now.days - t.days) + ((now.ms - t.ms) \div DayMs),
   ms   |-> (now.ms - t.ms) % DayMs]

\* how many of the pull requests were created no more than 24 hours before
\* now
CreatedInLastDay(prs, now) ==
  Cardinality({k \in 1..Len(prs) :
                 LET t == DateParse(prs[k].created_at)
                     past == Elapsed(t, now)
                 IN  /\ ~t.nan
                     /\ past.days < 1 \/ (past.days = 1 /\ past.ms = 0)})

VelocityBand(count) ==
  IF count <= 3 THEN 0
  ELSE IF count <= 5 THEN 50
  ELSE IF count <= 10 THEN 80 ELSE 100

\* C11: velocityCheck counts only the pull requests of its input created
\* within the 24 hours before the current time, and scores the count 0 for
\* 0 to 3, 50 for 4 and 5, 80 for 6 to 10 and 100 from 11 on; an input with
\* no more such pull requests never scores higher, and the pull requests
\* older than 24 hours change nothing: the input without them scores the
\* same.
C11_VelocityBands ==
  (phase = "called" /\ called = <<"velocityCheck">>) =>
    LET recentPRs == world.arguments[1]
        count == CreatedInLastDay(recentPRs, Now)
        young == SelectSeq(recentPRs,
                   LAMBDA pr : CreatedInLastDay(<<pr>>, Now) = 1)
    IN  /\ checks[1].score = VelocityBand(count)
        /\ \A other \in VelocityInputs :
             CreatedInLastDay(other, Now) <= count =>
               velocityCheck(other, Now).score <= checks[1].score
        /\ velocityCheck(young, Now).score = checks[1].score

\* four pull requests of the last day before two older ones score 50
C11_Witness ==
  /\ phase = "called"
  /\ called = <<"velocityCheck">>
  /\ Len(world.arguments[1]) = 6
  /\ CreatedInLastDay(world.arguments[1], Now) = 4
  /\ checks[1].score = 50

\* C12: abandonmentCheck returns score 0 whenever total < 3, whatever rate
\* and abandoned are; from total 3 on the score depends on rate alone, and
\* is 0 for rate <= 30, 25 for rate <= 50, 50 for rate <= 70, 80 for
\* rate <= 90 and 100 for rate > 90.
C12_AbandonmentBands ==
  (phase = "called" /\ called = <<"abandonmentCheck">>) =>
    LET stats == world.arguments[1]
        score == checks[1].score
        above(n) == DLt(DFromInt(n), stats.rate)
        upTo(n)  == DLe(stats.rate, DFromInt(n))
    IN  IF stats.total < 3 THEN score = 0
        ELSE /\ upTo(30) => score = 0
             /\ (above(30) /\ upTo(50)) => score = 25
             /\ (above(50) /\ upTo(70)) => score = 50
             /\ (above(70) /\ upTo(90)) => score = 80
             /\ above(90) => score = 100
             /\ \A other \in AbandonmentInputs :
                  (other.total >= 3 /\ other.rate = stats.rate) =>
                    abandonmentCheck(other).score = score

\* ten pull requests, four of them abandoned, rate 40: score 25
C12_Witness ==
  /\ phase = "called"
  /\ called = <<"abandonmentCheck">>
  /\ world.arguments[1].total = 10
  /\ world.arguments[1].abandoned = 4
  /\ world.arguments[1].rate = DFromInt(40)
  /\ checks[1].score = 25

\* the text the comparison of titles and bodies looks at
Compared(text) == trim(toLowerCase(text))

\* the entry's title is the current title, or more than 0.85 similar to it
IsTitleMatch(entry, currentPR) ==
  \/ Compared(entry.title) = Compared(currentPR.title)
  \/ DLt(DLit(85, 100),
         levenshteinSimilarity(Compared(entry.title), Compared(currentPR.title)))

\* both bodies have more than 20 characters and are more than 0.80 similar
IsBodyMatch(entry, currentPR) ==
  /\ Len(Compared(entry.body)) > 20
  /\ Len(Compared(currentPR.body)) > 20
  /\ DLt(DLit(80, 100),
         levenshteinSimilarity(Compared(entry.body), Compared(currentPR.body)))

\* the score of n entries with t title matches and b body matches
ShotgunScore(n, t, b) ==
  IF n = 0 \/ (t = 0 /\ b = 0) THEN 0
  ELSE IF t >= 3 \/ b >= 2 THEN 90
  ELSE IF t >= 2 \/ 2 * t > n THEN 60
  ELSE 25

NewAccountScore(age, isFirstPR) ==
  IF age >= 30 THEN 0
  ELSE IF ~isFirstPR THEN 10
  ELSE IF age >= 14 THEN 30
  ELSE IF age >= 7 THEN 50
  ELSE 70

\* C14: with accountAgeDays the whole days from the creation of the
\* account to now, rounded down, and isFirstPR saying that recentRepoPRs has
\* no entry with a number other than the pull request's, newAccountCheck
\* returns 0 if the age is 30 or more, 10 if it is less and the pull
\* request is not the first, and for a first pull request 30 from 14 days,
\* 50 from 7 days and 70 below 7.
C14_NewAccountScores ==
  (phase = "called" /\ called = <<"newAccountCheck">>) =>
    LET pr == world.arguments[1]
        recentRepoPRs == world.arguments[2]
        created == DateParse(pr.user.created_at)
        age == Elapsed(created, Now).days
        isFirstPR == \A k \in 1..Len(recentRepoPRs) :
                       recentRepoPRs[k].number = pr.number
    IN  ~created.nan => checks[1].score = NewAccountScore(age, isFirstPR)

\* an account one second short of seven days, whose only pull request in
\* the list is the current one: score 70
C14_Witness ==
  /\ phase = "called"
  /\ called = <<"newAccountCheck">>
  /\ world.arguments[1].user.created_at = "2024-02-26T12:00:01Z"
  /\ Len(world.arguments[2]) = 1
  /\ world.arguments[2][1].number = world.arguments[1].number
  /\ checks[1].score = 70

\* the number of characters of the text between its leading and trailing
\* white space
TrimmedLength(text) ==
  IF \A k \in 1..Len(text) : CharAt(text, k) \in WhiteSpace THEN 0
  ELSE LET inked == {k \in 1..Len(text) : CharAt(text, k) \notin WhiteSpace}
           first == CHOOSE k \in inked : \A j \in inked : k <= j
           last  == CHOOSE k \in inked : \A j \in inked : k >= j
       IN  last - first + 1

\* d < min(totalChanges * 0.1, 200), in tenths
BelowExpectedMinDescription(totalChanges, d) ==
  10 * d < (IF totalChanges < 2000 THEN totalChanges ELSE 2000)

\* the first row that applies to totalChanges and the description length d
OversizedScore(totalChanges, d) ==
  IF totalChanges <= 100 THEN 0
  ELSE IF totalChanges > 2000 /\ d < 50 THEN 95
  ELSE IF totalChanges > 1000 /\ d < 50 THEN 80
  ELSE IF totalChanges > 500 /\ d < 50 THEN 65
  ELSE IF totalChanges > 500 /\ BelowExpectedMinDescription(totalChanges, d) THEN 40
  ELSE IF totalChanges > 300 /\ d < 30 THEN 30
  ELSE 0

\* C15: with totalChanges = additions + deletions and d the length of the
\* trimmed body, oversizedDiffCheck returns 0 whenever totalChanges <= 100,
\* and otherwise the score of the first row that applies: > 2000 and d < 50
\* gives 95, > 1000 and d < 50 gives 80, > 500 and d < 50 gives 65, > 500 and
\* d < min(totalChanges * 0.1, 200) gives 40, > 300 and d < 30 gives 30,
\* anything else 0.
C15_OversizedDiffTable ==
  (phase = "called" /\ called = <<"oversizedDiffCheck">>) =>
    LET pr == world.arguments[1]
    IN  checks[1].score =
          OversizedScore(pr.additions + pr.deletions, TrimmedLength(pr.body))

\* 301 changed lines under a body of 29 characters between white space: 30
C15_Witness ==
  /\ phase = "called"
  /\ called = <<"oversizedDiffCheck">>
  /\ world.arguments[1].additions + world.arguments[1].deletions = 301
  /\ Len(world.arguments[1].body) = 32
  /\ TrimmedLength(world.arguments[1].body) = 29
  /\ checks[1].score = 30

\* C16 as stated: the expectedMinDescription branch (score 40) is reached
\* only for totalChanges in (500, 1000] with a description shorter than
\* min(totalChanges * 0.1, 200); no input with totalChanges > 1000 yields 40.
C16_RatioBranchOnlyUpTo1000 ==
  (phase = "called" /\ called = <<"oversizedDiffCheck">> /\ checks[1].score = 40) =>
    LET pr == world.arguments[1]
        totalChanges == pr.additions + pr.deletions
    IN  /\ totalChanges > 500 /\ totalChanges <= 1000
        /\ BelowExpectedMinDescription(totalChanges, TrimmedLength(pr.body))

\* C16 amended: the expectedMinDescription branch (score 40) is reached
\* exactly for totalChanges > 500 with a description of at least 50
\* characters that is shorter than min(totalChanges * 0.1, 200); sizes above
\* 1000 reach it as well, and sizes up to 500 never do.
C16_RatioBranchAbove500 ==
  (phase = "called" /\ called = <<"oversizedDiffCheck">>) =>
    LET pr == world.arguments[1]
        totalChanges == pr.additions + pr.deletions
        d == TrimmedLength(pr.body)
    IN  checks[1].score = 40 <=>
          /\ totalChanges > 500
          /\ d >= 50
          /\ BelowExpectedMinDescription(totalChanges, d)

\* 1500 changed lines with a description of 100 characters: 40
C16_Witness ==
  /\ phase = "called"
  /\ called = <<"oversizedDiffCheck">>
  /\ world.arguments[1].additions + world.arguments[1].deletions = 1500
  /\ TrimmedLength(world.arguments[1].body) = 100
  /\ checks[1].score = 40

\* the texts that mark a test, a configuration or a documentation file
RelatedMarkers ==
  {"test", "spec", "config", "package.json", ".yml", ".yaml", ".toml",
   "README", "doc", ".md"}

\* the text occurs in the name
Contains(name, text) ==
  \E from \in 1..Len(name) :
    /\ from + Len(text) - 1 <= Len(name)
    /\ \A k \in 1..Len(text) : CharAt(name, from + k - 1) = CharAt(text, k)

\* the path up to its first slash, "." for a path without one
TopSegment(path) ==
  LET slashes == {k \in 1..Len(path) : CharAt(path, k) = "/"}
  IN  IF slashes = {} THEN "."
      ELSE SubSeq(path, 1, (CHOOSE k \in slashes : \A j \in slashes : k <= j) - 1)

UnrelatedScore(dirCount, likelyRelated) ==
  IF dirCount <= 3 THEN 0
  ELSE IF dirCount <= 5 THEN (IF likelyRelated THEN 10 ELSE 35)
  ELSE IF dirCount <= 8 THEN 60
  ELSE 85

\* C17: unrelatedChangesCheck returns 0 for at most one file; otherwise,
\* with dirCount the number of distinct top-level path segments ("." for a
\* file at the root) and likelyRelated saying that some file name contains a
\* test, configuration or documentation marker, it returns 0 for
\* dirCount <= 3, 10 for dirCount <= 5 when likelyRelated and 35 when not,
\* 60 for dirCount <= 8 and 85 above.
C17_UnrelatedChangesTable ==
  (phase = "called" /\ called = <<"unrelatedChangesCheck">>) =>
    LET files == world.arguments[1]
        dirCount == Cardinality({TopSegment(files[k].filename) : k \in 1..Len(files)})
        likelyRelated ==
          \E k \in 1..Len(files), marker \in RelatedMarkers :
            Contains(files[k].filename, marker)
    IN  checks[1].score =
          IF Len(files) <= 1 THEN 0 ELSE UnrelatedScore(dirCount, likelyRelated)

\* four files, three in directories of their own and one at the root, none
\* of them marked: four segments, score 35
C17_Witness ==
  /\ phase = "called"
  /\ called = <<"unrelatedChangesCheck">>
  /\ Len(world.arguments[1]) = 4
  /\ {TopSegment(world.arguments[1][k].filename) : k \in 1..4} = {"d1", "d2", "d3", "."}
  /\ checks[1].score = 35

\* the words that claim substantive work
SubstantiveKeywords ==
  {"fix", "feat", "add", "implement", "resolve", "bug", "issue", "feature",
   "enhance", "refactor", "optimize"}

\* the score of formatting lines among total classified lines, 5 or more
FormattingScore(formatting, total, claims) ==
  IF 2 * formatting < total THEN 0
  ELSE IF 5 * formatting < 4 * total THEN (IF claims THEN 30 ELSE 10)
  ELSE IF 20 * formatting < 19 * total THEN (IF claims THEN 65 ELSE 25)
  ELSE (IF claims THEN 90 ELSE 35)

\* C18: formattingOnlyCheck returns 0 when fewer than 5 changed lines were
\* classified; otherwise, with rate = formatting / (formatting + substantive)
\* and claims saying that the lowercased title contains a substantive-work
\* keyword, it returns 0 for rate < 0.5, 30 (claims) or 10 for rate < 0.8,
\* 65 or 25 for rate < 0.95, and 90 or 35 from there on; a title that does
\* not claim substantive work never scores above 35.
C18_FormattingOnlyTable ==
  (phase = "called" /\ called = <<"formattingOnlyCheck">>) =>
    LET pr == world.arguments[1]
        tally == walkFiles(world.arguments[2])
        total == tally.formattingOnlyLines + tally.substantiveLines
        claims == \E word \in SubstantiveKeywords :
                    Contains(toLowerCase(pr.title), word)
    IN  /\ checks[1].score =
             IF total < 5 THEN 0
             ELSE FormattingScore(tally.formattingOnlyLines, total, claims)
        /\ ~claims => checks[1].score <= 35

\* 19 formatting lines of 20 under a title that claims a fix: 90
C18_Witness ==
  /\ phase = "called"
  /\ called = <<"formattingOnlyCheck">>
  /\ world.arguments[1].title = "Fix bug"
  /\ walkFiles(world.arguments[2])
       = [formattingOnlyLines |-> 19, substantiveLines |-> 1]
  /\ checks[1].score = 90

\* the lowercased, trimmed title is one of the generic titles
IsGenericTitle(pr) ==
  \E k \in 1..Len(genericTitles) :
    ReTest(genericTitles[k], Compared(pr.title), NoFlags)

\* the lowercased body has one of the template phrases
IsTemplatedBody(pr) ==
  \E k \in 1..Len(aiDescriptionPatterns) :
    ReTest(aiDescriptionPatterns[k], Compared(pr.body), NoFlags)

GenericDescriptionScore(generic, shortTitle, noBody, templated) ==
  IF generic /\ noBody THEN 85
  ELSE IF generic /\ templated THEN 70
  ELSE IF generic THEN 50
  ELSE IF shortTitle /\ noBody THEN 35
  ELSE IF templated THEN 20
  ELSE 0

\* C19: genericDescriptionCheck decides on four facts, a generic title, a
\* short title (trimmed length below 15), no body (trimmed length below 20)
\* and a templated body: generic with no body gives 85, else generic with a
\* templated body 70, else generic 50, else a short title with no body 35,
\* else a templated body 20, else 0.
C19_GenericDescriptionTable ==
  (phase = "called" /\ called = <<"genericDescriptionCheck">>) =>
    LET pr == world.arguments[1]
    IN  checks[1].score =
          GenericDescriptionScore(IsGenericTitle(pr),
                                  TrimmedLength(pr.title) < 15,
                                  TrimmedLength(pr.body) < 20,
                                  IsTemplatedBody(pr))

\* a short title that is not generic over a templated body of 17
\* characters: 35, the row before the one of the templated body
C19_Witness ==
  /\ phase = "called"
  /\ called = <<"genericDescriptionCheck">>
  /\ world.arguments[1].title = "Tidy up"
  /\ world.arguments[1].body = "This PR fixes it."
  /\ ~IsGenericTitle(world.arguments[1])
  /\ IsTemplatedBody(world.arguments[1])
  /\ checks[1].score = 35

\* the added lines of the patches that are import statements: import or
\* from at the start of the line, or a call of require
ImportStatements(files) ==
  LET lines == Flatten([k \in 1..Len(files) |->
                          IF files[k].patch = "" THEN <<>>
                          ELSE addedLinesOf(files[k].patch)])
      text(line) == trimStart(substring(line, 1))
  IN  SelectSeq(lines,
                LAMBDA line : \/ startsWith(text(line), "import ")
                              \/ startsWith(text(line), "from ")
                              \/ Contains(line, "require("))

\* the module specifier of an import statement: the quoted text, or in a
\* statement without quotes the dotted name after the keyword
SpecifierOf(statement) ==
  LET quotes == {k \in 1..Len(statement) : CharAt(statement, k) \in {"'", "\""}}
      open   == CHOOSE k \in quotes : \A j \in quotes : k <= j
      close  == CHOOSE k \in quotes \ {open} : \A j \in quotes \ {open} : k <= j
  IN  IF Cardinality(quotes) >= 2 THEN SubSeq(statement, open + 1, close - 1)
      ELSE splitOnSpaces(trim(substring(statement, 1)))[2]

\* the package of a specifier: "@scope/name" of a scoped one, else the text
\* before the first slash or dot
PackageOf(specifier) ==
  LET segments == split(specifier, "/")
  IN  IF startsWith(specifier, "@") /\ Len(segments) >= 2
      THEN segments[1] \o "/" \o segments[2]
      ELSE split(segments[1], ".")[1]

\* C20: hallucinatedImportCheck holds an import suspicious only if its
\* package is neither built in nor among projectDeps: whenever every module
\* specifier imported in the added lines is a built-in or a declared
\* dependency the score is 0, and every import statement contributes
\* exactly one candidate to the total.
C20_KnownImportsScoreZero ==
  (phase = "called" /\ called = <<"hallucinatedImportCheck">>) =>
    LET files == world.arguments[1]
        projectDeps == world.arguments[2]
        statements == ImportStatements(files)
    IN  /\ (\A k \in 1..Len(statements) :
              PackageOf(SpecifierOf(statements[k])) \in builtins \cup projectDeps)
             => checks[1].score = 0
        /\ Len(importsOf(files)) = Len(statements)

\* two retained blocks match: the shorter has at least 0.7 times the lines
\* of the longer, and their normalized texts are equal and longer than 50
\* characters
BlocksMatch(a, b) ==
  /\ 10 * a.lineCount >= 7 * b.lineCount
  /\ 10 * b.lineCount >= 7 * a.lineCount
  /\ normalizeCode(a.block) = normalizeCode(b.block)
  /\ Len(normalizeCode(a.block)) > 50

\* the unordered pairs of retained blocks of the whole change set that match
MatchingPairs(files) ==
  LET blocks == codeBlocksOf(files)
  IN  {pair \in (1..Len(blocks)) \X (1..Len(blocks)) :
         pair[1] < pair[2] /\ BlocksMatch(blocks[pair[1]], blocks[pair[2]])}

\* C21: copyPasteCheck compares every unordered pair of retained blocks of
\* the whole change set, within and across files, and counts one duplicate
\* for every matching pair, so that k blocks matching one another give
\* k (k - 1) / 2 duplicates; no duplicate scores 0, exactly one with fewer
\* than 15 duplicated lines 20, two or three 50, four or more 85.
C21_CopyPastePairs ==
  (phase = "called" /\ called = <<"copyPasteCheck">>) =>
    LET files == world.arguments[1]
        blocks == codeBlocksOf(files)
        pairs == MatchingPairs(files)
        count == Cardinality(pairs)
        lines(pair) == IF blocks[pair[1]].lineCount < blocks[pair[2]].lineCount
                       THEN blocks[pair[1]].lineCount
                       ELSE blocks[pair[2]].lineCount
        score == checks[1].score
    IN  /\ Len(duplicatePairsOf(blocks)) = count
        /\ count = 0 => score = 0
        /\ (count = 1 /\ \A pair \in pairs : lines(pair) < 15) => score = 20
        /\ count \in 2..3 => score = 50
        /\ count >= 4 => score = 85

\* four blocks of four lines, each matching the three others: six
\* duplicates, score 85
C21_Witness ==
  /\ phase = "called"
  /\ called = <<"copyPasteCheck">>
  /\ Len(codeBlocksOf(world.arguments[1])) = 4
  /\ Cardinality(MatchingPairs(world.arguments[1])) = 6
  /\ checks[1].score = 85

\* C22: levenshteinSimilarity is symmetric, similarity(a, b) =
\* similarity(b, a), on the edit-distance path and on the word path of texts
\* longer than 500 characters; it returns 1 for identical texts, 0 when
\* exactly one text is empty, and always a number from 0 to 1.
C22_SimilaritySymmetric ==
  (phase = "called" /\ called = <<"levenshteinSimilarity">>) =>
    LET a == world.arguments[1]
        b == world.arguments[2]
    IN  /\ result = levenshteinSimilarity(b, a)
        /\ a = b => result = DFromInt(1)
        /\ ((a = "") # (b = "")) => result = DZero
        /\ DLe(DZero, result) /\ DLe(result, DFromInt(1))

\* two different texts of more than 500 characters that share one of their
\* words: strictly between 0 and 1, on the word path
C22_Witness ==
  /\ phase = "called"
  /\ called = <<"levenshteinSimilarity">>
  /\ Len(world.arguments[1]) > 500
  /\ Len(world.arguments[2]) > 500
  /\ world.arguments[1] # world.arguments[2]
  /\ DLt(DZero, result) /\ DLt(result, DFromInt(1))

\* the checks that read the patch text of the files
PatchChecks ==
  {"placeholderCheck", "hallucinatedImportCheck", "docstringInflationCheck",
   "copyPasteCheck", "formattingOnlyCheck"}

\* the files argument of a call of one of the checks on files
FilesOf(function, arguments) ==
  IF function = "formattingOnlyCheck" THEN arguments[2] ELSE arguments[1]

\* what the check returns for these files and the other arguments of the call
CheckOnFiles(function, arguments, files) ==
  CASE function = "placeholderCheck" -> placeholderCheck(files)
    [] function = "hallucinatedImportCheck" ->
         hallucinatedImportCheck(files, arguments[2])
    [] function = "docstringInflationCheck" -> docstringInflationCheck(files)
    [] function = "copyPasteCheck" -> copyPasteCheck(files)
    [] function = "formattingOnlyCheck" -> formattingOnlyCheck(arguments[1], files)
    [] function = "unrelatedChangesCheck" -> unrelatedChangesCheck(files)

\* no file of the list has patch text: an empty list as well
NoPatchText(files) == \A k \in 1..Len(files) : files[k].patch = ""

\* the call returned score 0 with a reason for files without patch text,
\* and what it returned is what the files that have patch text give
NeutralWithoutPatch ==
  LET files == FilesOf(called[1], world.arguments)
      patched == SelectSeq(files, LAMBDA file : file.patch # "")
  IN  /\ NoPatchText(files) => (checks[1].score = 0 /\ checks[1].reason # "")
      /\ checks[1] = CheckOnFiles(called[1], world.arguments, patched)

\* C23 as stated: for an empty file list, files without patch text or empty
\* patch text, placeholderCheck, hallucinatedImportCheck,
\* docstringInflationCheck, copyPasteCheck, unrelatedChangesCheck and
\* formattingOnlyCheck all return score 0 with a reason, and a file without
\* a patch never changes the result computed from the other files.
C23_NeutralWithoutPatchAllSix ==
  (phase = "called" /\ called[1] \in PatchChecks \cup {"unrelatedChangesCheck"})
    => NeutralWithoutPatch

\* C23 amended: the five checks that read patch text return score 0 with a
\* reason for an empty file list and for files without patch text, and a
\* file without a patch never changes what they compute from the other
\* files; unrelatedChangesCheck returns score 0 with a reason for an empty
\* file list, and scores a file by its name whether it has patch text or
\* not.
C23_NeutralWithoutPatch ==
  /\ (phase = "called" /\ called[1] \in PatchChecks) => NeutralWithoutPatch
  /\ (phase = "called" /\ called = <<"unrelatedChangesCheck">>) =>
       LET files == world.arguments[1]
           named == [k \in 1..Len(files) |-> PRFile(files[k].filename, "+x")]
       IN  /\ files = <<>> => (checks[1].score = 0 /\ checks[1].reason # "")
           /\ checks[1] = unrelatedChangesCheck(named)

\* a file without patch text before a file with imports: the finding of
\* the second file alone
C23_Witness ==
  /\ phase = "called"
  /\ called = <<"hallucinatedImportCheck">>
  /\ Len(world.arguments[1]) = 2
  /\ world.arguments[1][1].patch = ""
  /\ world.arguments[1][2].patch = ImportsPatch
  /\ checks[1].score > 0
  /\ checks[1] = hallucinatedImportCheck(<<world.arguments[1][2]>>, world.arguments[2])

\* what the specification lets a verdict do beyond the label
ResponseOf(verdict, auto_close) ==
  [comments |-> CASE verdict = "warn" -> <<"SlopGate Review">>
                  [] verdict = "block" -> <<"SlopGate: PR Blocked">>
                  [] OTHER -> <<>>,
   reviews |-> IF verdict = "flag" THEN <<"SlopGate: PR Flagged">> ELSE <<>>,
   state |-> IF verdict = "block" /\ auto_close THEN "closed" ELSE "open"]

IsPrefix(s, t) == Len(s) <= Len(t) /\ SubSeq(t, 1, Len(s)) = s

Responded == phase = "done"

\* C24: respond maps the verdict to its actions: pass to the label only, warn
\* to one informational comment, flag to one review that requests changes,
\* block to one comment and, exactly under auto_close, the close of the pull
\* request. At no time is a pull request closed for another verdict than
\* block or without auto_close, and no response holds more than its verdict's
\* comments and reviews.
C24_VerdictActions ==
  world.kind = "respond" =>
    LET expected == ResponseOf(result.verdict, config.auto_close)
    IN  /\ world.state = "closed" =>
             result.verdict = "block" /\ config.auto_close
        /\ IsPrefix(world.comments, expected.comments)
        /\ IsPrefix(world.reviews, expected.reviews)
        /\ Responded =>
             /\ world.comments = expected.comments
             /\ world.reviews = expected.reviews
             /\ world.state = expected.state
             /\ Calls("addLabel") = 1
             /\ Calls("createComment") = Len(expected.comments)
             /\ Calls("requestChanges") = Len(expected.reviews)
             /\ Calls("closePullRequest") =
                  (IF expected.state = "closed" THEN 1 ELSE 0)

\* a block under auto_close has been answered: one comment, then the close
C24_Witness ==
  /\ Responded
  /\ result.verdict = "block"
  /\ config.auto_close
  /\ world.comments = <<"SlopGate: PR Blocked">>
  /\ world.state = "closed"

\* run() has loaded the configuration and decided about the allowlist
Loaded == world.kind = "run" /\ phase # "start"

\* the author of the pull request is on the allowlist, as the specification
\* words it
AuthorAllowlisted ==
  \/ world.pr.user.login \in config.allowlist.users
  \/ world.pr.user.type = "Bot" /\ world.pr.user.login \in config.allowlist.bots

\* C25: the author is treated as allowlisted exactly when the login is in
\* allowlist.users, or the account is a Bot and the login is in
\* allowlist.bots; for an allowlisted author run() reports score 0, verdict
\* pass and allowlisted, and has called no check, computed no score and sent
\* no request that labels, comments on or closes the pull request; for any
\* other author the outputs never say allowlisted.
C25_AllowlistedSkipsEverything ==
  Loaded =>
    /\ AuthorAllowlisted <=> phase = "allowlisted"
    /\ phase = "allowlisted" =>
         /\ outputs = [set |-> TRUE, score |-> 0, verdict |-> "pass",
                       allowlisted |-> TRUE, summary |-> ""]
         /\ checks = <<>>
         /\ called = <<>>
         /\ result = NoResult
         /\ world \in RunWorlds
    /\ (~AuthorAllowlisted /\ outputs.set) => ~outputs.allowlisted

\* renovate[bot], a Bot account on the default allowlist, was let through
C25_Witness ==
  /\ Loaded
  /\ phase = "allowlisted"
  /\ world.pr.user.type = "Bot"
  /\ world.pr.user.login = "renovate[bot]"
  /\ config.allowlist.users = {}
  /\ outputs.set /\ outputs.score = 0 /\ outputs.verdict = "pass"

Verdicts == {"pass", "warn", "flag", "block"}

\* C26: every configuration run() gets from loadConfig has ascending
\* thresholds, warn < flag < block, within 0..100, and each of the four
\* verdicts is the verdict of some final score.
C26_ThresholdsAscending ==
  Loaded =>
    /\ 0 <= config.thresholds.warn
    /\ config.thresholds.warn < config.thresholds.flag
    /\ config.thresholds.flag < config.thresholds.block
    /\ config.thresholds.block <= 100
    /\ \A verdict \in Verdicts :
         \E score \in 0..100 : getVerdict(score, config) = verdict

\* the lines of a patch that start with + or - and are no header lines
ChangedLines(patch) ==
  LET lines == split(patch, "\n")
  IN  SelectSeq(lines, LAMBDA line : /\ ~isDiffMetadata(line)
                                     /\ (startsWith(line, "+") \/ startsWith(line, "-")))

\* C27: after formattingOnlyCheck has walked the patches, the formatting and
\* the substantive tally together are the number of lines that start with +
\* or - and are no header lines (@@, diff, index, ---, +++): header lines
\* count for nothing, every other changed line counts once.
C27_TalliesCountChangedLines ==
  (phase = "called" /\ called = <<"formattingOnlyCheck">>) =>
    LET files == world.arguments[2]
        tallies == walkFiles(files)
    IN  tallies.formattingOnlyLines + tallies.substantiveLines
          = Sum([k \in 1..Len(files) |-> Len(ChangedLines(files[k].patch))])

\* an added line of a patch, and one with text on it
IsAddedLine(line) == startsWith(line, "+") /\ ~startsWith(line, "+++")
IsNonBlankAddedLine(line) == IsAddedLine(line) /\ trim(substring(line, 1)) # ""

\* the maximal runs of consecutive lines of a file's patch that satisfy
\* member, each as the trimmed text of its non-blank lines, those runs kept
\* that have at least 4 of them
RunBlocks(file, member(_)) ==
  LET lines == split(file.patch, "\n")
      n == Len(lines)
      first == SelectSeq(Indices(n),
                         LAMBDA i : member(lines[i])
                                    /\ (i = 1 \/ ~member(lines[i - 1])))
      last(s) == CHOOSE e \in s..n :
                   /\ \A i \in s..e : member(lines[i])
                   /\ (e = n \/ ~member(lines[e + 1]))
      text(s) == SelectSeq([i \in 1..(last(s) - s + 1) |->
                              trim(substring(lines[s + i - 1], 1))],
                           LAMBDA cleanLine : cleanLine # "")
      kept == SelectSeq(first, LAMBDA s : Len(text(s)) >= 4)
  IN  [k \in 1..Len(kept) |->
         [file |-> file.filename, block |-> join(text(kept[k]), "\n"),
          lineCount |-> Len(text(kept[k]))]]

\* the runs of each file with patch text, file after file
RunBlocksOf(files, member(_)) ==
  LET patched == SelectSeq(files, LAMBDA file : file.patch # "")
  IN  Flatten([k \in 1..Len(patched) |-> RunBlocks(patched[k], member)])

CopyPasteCalled == phase = "called" /\ called = <<"copyPasteCheck">>

\* C28 as stated: the blocks of copyPasteCheck are the runs of consecutive
\* non-blank added lines of one file that have at least 4 lines; a blank
\* added line ends the run like any other line.
C28_BlocksAreNonBlankRuns ==
  CopyPasteCalled =>
    codeBlocksOf(world.arguments[1])
      = RunBlocksOf(world.arguments[1], IsNonBlankAddedLine)

\* C28 amended: the blocks of copyPasteCheck are the runs of consecutive
\* added lines of one file, blank ones included, that hold at least 4
\* non-blank lines; a block is the trimmed text of the non-blank lines of
\* its run. A context, removed or header line ends the run, a blank added
\* line does not; no block spans two files, and the run that ends with the
\* patch is kept like the others.
C28_BlocksAreAddedRuns ==
  CopyPasteCalled =>
    codeBlocksOf(world.arguments[1])
      = RunBlocksOf(world.arguments[1], IsAddedLine)

\* two added lines, a blank added line and two more added lines are one
\* block of 4 lines, closed by the end of the patch
C28_Witness ==
  /\ CopyPasteCalled
  /\ Len(world.arguments[1]) = 1
  /\ \E i \in 2..(Len(split(world.arguments[1][1].patch, "\n")) - 1) :
       split(world.arguments[1][1].patch, "\n")[i] = "+"
  /\ codeBlocksOf(world.arguments[1])
       = <<[file |-> "src/a.ts",
            block |-> "first();\nfirst();\nsecond();\nsecond();",
            lineCount |-> 4]>>

SlopGateLabels == {ALL_LABEL_NAMES[k] : k \in 1..Len(ALL_LABEL_NAMES)}

\* the positions of called at which name was called
CallsAt(name) == {k \in 1..Len(called) : called[k] = name}

Before(earlier, later) ==
  \A k \in CallsAt(later) : \E j \in CallsAt(earlier) : j < k

\* C29: in respond all four SlopGate labels have been removed before the
\* verdict's label is added, the label is added before any comment, review
\* or close, a close comes only after the block comment was posted, and
\* when respond has returned the pull request carries exactly one SlopGate
\* label, that of the verdict, whatever it carried before.
C29_LabelsThenResponse ==
  world.kind = "respond" =>
    /\ \A k \in CallsAt("addLabel") :
         Cardinality({j \in CallsAt("removeLabel") : j < k}) = 4
    /\ Before("addLabel", "createComment")
    /\ Before("addLabel", "requestChanges")
    /\ Before("addLabel", "closePullRequest")
    /\ Before("createComment", "closePullRequest")
    /\ CallsAt("closePullRequest") # {} =>
         world.comments = <<"SlopGate: PR Blocked">>
    /\ Responded =>
         world.labels \cap SlopGateLabels = {LABELS[result.verdict].name}

\* the calls a failure of which respond does not catch
ThrowingCalls ==
  {"addLabel", "createComment", "requestChanges", "closePullRequest"}

\* what the pull request holds beyond its labels
Response(pr) == [comments |-> pr.comments, reviews |-> pr.reviews,
                 state |-> pr.state]

NoResponse == [comments |-> <<>>, reviews |-> <<>>, state |-> "open"]

\* respond has thrown: the last three calls are the request that failed,
\* the end of the log group and setFailed, and the request left no trace
FailedCleanly ==
  LET n == Len(called)
      failed == called[n - 2]
  IN  /\ n >= 3
      /\ called[n] = "setFailed"
      /\ called[n - 1] = "endGroup"
      /\ failed \in ThrowingCalls
      /\ Calls(failed) = 1
      /\ failed = "addLabel" =>
           /\ Response(world) = NoResponse
           /\ ThrowingCalls \cap {called[k] : k \in 1..n} = {"addLabel"}
      /\ failed \in {"createComment", "requestChanges"} =>
           /\ Response(world) = NoResponse
           /\ Calls("closePullRequest") = 0
      /\ failed = "closePullRequest" =>
           Response(world) = [NoResponse EXCEPT
                                !.comments = <<"SlopGate: PR Blocked">>]

\* C30: when addLabel, createComment, requestChanges or closePullRequest
\* throws inside respond, nothing of the response is done after it (a block
\* whose comment fails is not closed), the log group is ended all the same,
\* and run() marks the action as failed; respond takes no further step.
\* Removing a label, present or not, never aborts the response.
C30_FailureStopsResponse ==
  /\ [](world.kind = "respond" =>
          /\ phase = "failed" => FailedCleanly
          /\ phase \in {"done", "failed"} =>
               Calls("startGroup") = 1 /\ Calls("endGroup") = 1
          /\ Calls("removeLabel") < 4 => phase \in {"scored", "removeLabel"})
  /\ [][phase # "failed"]_vars

\* the block comment of a pull request that was to be closed failed: no
\* comment, no close, the group ended, the action failed
C30_Witness ==
  /\ world.kind = "respond"
  /\ phase = "failed"
  /\ result.verdict = "block" /\ config.auto_close
  /\ SubSeq(called, Len(called) - 2, Len(called))
       = <<"createComment", "endGroup", "setFailed">>
  /\ world.comments = <<>> /\ world.state = "open"

====
